---- MODULE Spec2Model ----
(***************************************************************************)
(* Model of the assistant's task-orchestration core (raghav3615/hackcrux): *)
(*   - the TTL cache manager        (src/unnamed/part_000)                 *)
(*   - the mail composition flow    (src/unnamed/part_002)                 *)
(*   - the mail entity extractor    (src/services/auth/googleAuth.js)      *)
(*   - the scheduling flow          (src/unnamed/part_004)                 *)
(*   - the dialogue orchestrator    (src/services/auth/googleAuth.js)      *)
(* Each component has its own specification (SpecCache, SpecMail,          *)
(* SpecSchedule, SpecChat); the variables of the other components are left *)
(* unchanged by its actions.                                               *)
(***************************************************************************)
EXTENDS Integers, Sequences, FiniteSets, TLC

VARIABLES
    cache,      \* part_000:7   the Map, as the sequence of its entries in insertion order
    now,        \* Date.now() of the cache's process
    last,       \* the last cache call: operation, arguments, returned value
    stored,     \* history of one key: its latest set(k, v, ttl) not yet removed/cleared/evicted/overwritten
    lazy,       \* the same calls applied to a cache on which cleanup() never runs
    lazyLast,   \* what the last call returned on that cache, and whether it has evicted
    emailState, \* part_002:24-34   the mail flow's state object
    clock,      \* Date.now() of the assistant's process, in minutes
    turn,       \* the last call into the mail flow: arguments, outcome of its external calls, response
    scheduleState, \* part_004:10-26   the scheduling flow's state object
    schedTurn,  \* the last call into the scheduling flow: input, outcome of its external calls, response
    conversationHistory, \* googleAuth.js:344   the orchestrator's list of recent entries
    chatTurn,   \* the last turn of the orchestrator: input, route, what it stored and created
    requests,   \* part_004:268-279   the POST /chat requests in flight: where each is suspended
    binding,    \* the object emailState is bound to: a number that grows with each emailState = {...}
    flowSession, \* the sessionId of the request that started the mail flow
    arrivals,   \* the requests received so far
    lastStep,   \* the last step of a request: whose it was and what it did to emailState
    callArgs,     \* the arguments of the function called, for the statements about one function
    callResult,   \* what the function returned, once it has been called
    options       \* part_000:17   the cache manager's configuration

cacheVars == <<cache, now, last, stored, lazy, lazyLast>>

mailVars == <<emailState, clock, turn>>

scheduleVars == <<scheduleState, schedTurn>>
chatVars == <<conversationHistory, chatTurn>>
requestVars == <<requests, binding, flowSession, arrivals, lastStep>>
callVars == <<callArgs, callResult>>
optionVars == <<options>>

vars == <<cacheVars, mailVars, scheduleVars, chatVars, requestVars, callVars, optionVars>>


(***************************************************************************)
(* Bounds of the model.                                                    *)
(***************************************************************************)
MaxNow == 1             \* the clock runs 0..MaxNow
MaxSize == 2            \* options.maxSize as configured through initialize()
MaxClock == 16          \* the assistant's clock runs 0..MaxClock minutes
TickMinutes == {8}      \* the time between two turns

NULL == "null"
UNDEFINED == "undefined"

Keys == {"", "a", "b", "c"}         \* "" is the falsy key
Values == {"v1", "v2"}
TTLs == {0, 1}                      \* the ttl argument, in clock ticks

\* Payloads of the batch calls: a JavaScript value with its typeof/Array.isArray
\* classification and, for objects and arrays, its own enumerable content.
ObjectPayloads ==
    { [kind |-> "object", entries |-> << <<"a", "v1">> >>],
      [kind |-> "object", entries |-> << <<"b", "v2">>, <<"c", "v1">> >>],
      [kind |-> "object", entries |-> << <<"", "v1">>, <<"a", "v2">> >>] }
ArrayPayloads ==
    { [kind |-> "array", entries |-> <<>>],
      [kind |-> "array", entries |-> <<"a", "b">>],
      [kind |-> "array", entries |-> <<"", "c">>] }
ScalarPayloads ==
    { [kind |-> k, entries |-> <<>>] : k \in {"null", "undefined", "string"} }

SetPayloads == ObjectPayloads \cup ScalarPayloads
KeyPayloads == ArrayPayloads \cup ScalarPayloads \cup {[kind |-> "object", entries |-> <<>>]}

(***************************************************************************)
(* JavaScript Map, kept as a sequence of entries in insertion order.       *)
(***************************************************************************)
MapHas(m, k) == \E i \in 1..Len(m) : m[i].key = k

MapGet(m, k) == m[CHOOSE i \in 1..Len(m) : m[i].key = k]

MapDelete(m, k) == SelectSeq(m, LAMBDA e : e.key # k)

\* Map.prototype.set: an existing key keeps its position, a new key goes last.
MapSet(m, k, item) ==
    IF MapHas(m, k)
    THEN [i \in 1..Len(m) |-> IF m[i].key = k THEN item ELSE m[i]]
    ELSE Append(m, item)

MapKeys(m) == {m[i].key : i \in 1..Len(m)}

(***************************************************************************)
(* part_000: the cache manager.  Every operator takes the Map and the      *)
(* clock reading and gives the Map afterwards and the returned value.      *)
(***************************************************************************)

\* part_000:23-25   options after initialize({maxSize: MaxSize})
ConfiguredOptions == [maxSize |-> MaxSize]

\* part_000:87 / 113 / 204   item.expires < Date.now()
ExpiredEarly(item, t) == item.expires <= t
Expired(item, t) == item.expires < t

\* part_000:221-237
RECURSIVE OldestFrom(_, _, _)
OldestFrom(m, i, acc) ==
    IF i > Len(m) THEN acc.key
    ELSE IF acc.infinite \/ m[i].timestamp < acc.ts
         THEN OldestFrom(m, i + 1, [key |-> m[i].key, ts |-> m[i].timestamp, infinite |-> FALSE])
         ELSE OldestFrom(m, i + 1, acc)

getNewestKey(m) ==
    IF Len(m) = 0 THEN NULL
    ELSE m[CHOOSE i \in 1..Len(m) : \A j \in 1..Len(m) : m[j].timestamp <= m[i].timestamp].key
getOldestKey(m) ==
    IF Len(m) = 0 THEN NULL
    ELSE OldestFrom(m, 1, [key |-> NULL, ts |-> 0, infinite |-> TRUE])

\* part_000:45-71
setUnguarded(m, key, value, ttl, t) ==
    LET full == Len(m) >= options.maxSize /\ ~MapHas(m, key)
        oldestKey == IF full THEN getOldestKey(m) ELSE NULL
        evict == full /\ oldestKey # NULL /\ oldestKey # ""
        m1 == IF evict THEN MapDelete(m, oldestKey) ELSE m
    IN [store |-> MapSet(m1, key, [key |-> key, value |-> value,
                                   expires |-> t + ttl, timestamp |-> t]),
        result |-> TRUE,
        evicted |-> IF evict THEN oldestKey ELSE NULL]
setEvictingNothing(m, key, value, ttl, t) ==
    IF key = "" THEN [store |-> m, result |-> FALSE, evicted |-> NULL]
    ELSE [store |-> MapSet(m, key, [key |-> key, value |-> value,
                                    expires |-> t + ttl, timestamp |-> t]),
          result |-> TRUE, evicted |-> NULL]
set(m, key, value, ttl, t) ==
    IF key = "" THEN [store |-> m, result |-> FALSE, evicted |-> NULL]
    ELSE
    LET full == Len(m) >= options.maxSize /\ ~MapHas(m, key)
        oldestKey == IF full THEN getOldestKey(m) ELSE NULL
        evict == full /\ oldestKey # NULL /\ oldestKey # ""
        m1 == IF evict THEN MapDelete(m, oldestKey) ELSE m
    IN [store |-> MapSet(m1, key, [key |-> key, value |-> value,
                                   expires |-> t + ttl, timestamp |-> t]),
        result |-> TRUE,
        evicted |-> IF evict THEN oldestKey ELSE NULL]

\* part_000:78-97
get(m, key, t) ==
    IF key = "" \/ ~MapHas(m, key) THEN [store |-> m, result |-> NULL]
    ELSE IF Expired(MapGet(m, key), t)
         THEN [store |-> MapDelete(m, key), result |-> NULL]
         ELSE [store |-> m, result |-> MapGet(m, key).value]

\* part_000:104-123
has(m, key, t) ==
    IF key = "" \/ ~MapHas(m, key) THEN [store |-> m, result |-> FALSE]
    ELSE IF Expired(MapGet(m, key), t)
         THEN [store |-> MapDelete(m, key), result |-> FALSE]
         ELSE [store |-> m, result |-> TRUE]

\* part_000:130-137   Map.delete returns whether the key was there
remove(m, key) == [store |-> MapDelete(m, key), result |-> MapHas(m, key)]

\* part_000:143-151
clear(m) == [store |-> <<>>, result |-> TRUE]

\* part_000:157-159
size(m) == Len(m)

\* part_000:198-215
cleanupEager(m, t) ==
    [store |-> SelectSeq(m, LAMBDA e : ~(e.expires <= t)),
     result |-> Cardinality({i \in 1..Len(m) : m[i].expires <= t})]
cleanup(m, t) ==
    [store |-> SelectSeq(m, LAMBDA e : ~Expired(e, t)),
     result |-> Cardinality({i \in 1..Len(m) : Expired(m[i], t)})]

\* part_000:245-263
RECURSIVE SetEach(_, _, _, _, _, _)
SetEach(m, entries, i, ttl, t, acc) ==
    IF i > Len(entries) THEN [store |-> m, result |-> acc.success, evicted |-> acc.evicted]
    ELSE LET r == set(m, entries[i][1], entries[i][2], ttl, t)
         IN SetEach(r.store, entries, i + 1, ttl, t,
                    [success |-> acc.success /\ r.result,
                     evicted |-> IF r.evicted # NULL THEN acc.evicted \cup {r.evicted}
                                 ELSE acc.evicted])

setMultiple(m, items, ttl, t) ==
    IF items.kind \in {"null", "undefined"} \/ items.kind # "object"
    THEN [store |-> m, result |-> FALSE, evicted |-> {}]
    ELSE SetEach(m, items.entries, 1, ttl, t, [success |-> TRUE, evicted |-> {}])

\* part_000:270-289   the result object, as the set of its <<key, value>> pairs
RECURSIVE GetEach(_, _, _, _, _)
GetEach(m, keys, i, t, acc) ==
    IF i > Len(keys) THEN [store |-> m, result |-> acc]
    ELSE LET r == get(m, keys[i], t)
         IN GetEach(r.store, keys, i + 1, t,
                    IF r.result # NULL
                    THEN {p \in acc : p[1] # keys[i]} \cup {<<keys[i], r.result>>}
                    ELSE acc)

getMultiple(m, keys, t) ==
    IF keys.kind # "array" THEN [store |-> m, result |-> {}]
    ELSE GetEach(m, keys.entries, 1, t, {})

\* part_000:296-314
RECURSIVE RemoveEach(_, _, _, _)
RemoveEach(m, keys, i, success) ==
    IF i > Len(keys) THEN [store |-> m, result |-> success]
    ELSE LET r == remove(m, keys[i])
         IN RemoveEach(r.store, keys, i + 1, success /\ r.result)

removeMultiple(m, keys) ==
    IF keys.kind # "array" THEN [store |-> m, result |-> FALSE]
    ELSE RemoveEach(m, keys.entries, 1, TRUE)

(***************************************************************************)
(* JavaScript values and strings.  A string is the sequence of its         *)
(* characters, so that includes(), trim(), toLowerCase() and the regular   *)
(* expressions are computed on the text itself.                            *)
(***************************************************************************)
Str(chars) == [type |-> "string", s |-> chars, n |-> 0]
Num(n) == [type |-> "number", s |-> <<>>, n |-> n]
Undefined == [type |-> "undefined", s |-> <<>>, n |-> 0]

\* ToBoolean: the empty string, undefined, null and 0 are falsy.
Truthy(v) ==
    \/ v.type = "string" /\ v.s # <<>>
    \/ v.type = "number" /\ v.n # 0

UpperCase == <<"A", "B", "C", "D", "E", "F", "G", "H", "I", "J", "K", "L", "M",
               "N", "O", "P", "Q", "R", "S", "T", "U", "V", "W", "X", "Y", "Z">>
LowerCase == <<"a", "b", "c", "d", "e", "f", "g", "h", "i", "j", "k", "l", "m",
               "n", "o", "p", "q", "r", "s", "t", "u", "v", "w", "x", "y", "z">>
Digits == {"0", "1", "2", "3", "4", "5", "6", "7", "8", "9"}

Upper == {UpperCase[i] : i \in 1..Len(UpperCase)}
Lower == {LowerCase[i] : i \in 1..Len(LowerCase)}
ToLower == [c \in Upper |-> LowerCase[CHOOSE i \in 1..Len(UpperCase) : UpperCase[i] = c]]

IsLetter(c) == c \in Upper \/ c \in Lower
IsSpace(c) == c = " "

LowerChar(c) == IF c \in Upper THEN ToLower[c] ELSE c

\* String.prototype.toLowerCase
toLowerCase(s) == [i \in 1..Len(s) |-> LowerChar(s[i])]

\* String.prototype.includes
includes(s, sub) ==
    \E i \in 0..(Len(s) - Len(sub)) : \A j \in 1..Len(sub) : s[i + j] = sub[j]

\* The last position of the run of blanks that starts at i (i - 1 when s[i]
\* is no blank).
RECURSIVE SpaceRunEnd(_, _)
SpaceRunEnd(s, i) ==
    IF i <= Len(s) /\ IsSpace(s[i]) THEN SpaceRunEnd(s, i + 1) ELSE i - 1

\* The same for a run of characters other than blanks.
RECURSIVE NonSpaceRunEnd(_, _)
NonSpaceRunEnd(s, i) ==
    IF i <= Len(s) /\ ~IsSpace(s[i]) THEN NonSpaceRunEnd(s, i + 1) ELSE i - 1

\* The last position at or before e that holds no blank (0 when there is none).
RECURSIVE LastNonSpace(_, _)
LastNonSpace(s, e) ==
    IF e >= 1 /\ IsSpace(s[e]) THEN LastNonSpace(s, e - 1) ELSE e

\* String.prototype.trim
trim(s) == SubSeq(s, SpaceRunEnd(s, 1) + 1, LastNonSpace(s, Len(s)))

\* part_002:847   /[a-zA-Z0-9._%+-]+@[a-zA-Z0-9.-]+\.[a-zA-Z]{2,}/
IsLocalChar(c) == IsLetter(c) \/ c \in Digits \/ c \in {".", "_", "%", "+", "-"}
IsDomainChar(c) == IsLetter(c) \/ c \in Digits \/ c \in {".", "-"}

\* The last position of the run of [a-zA-Z0-9._%+-] that starts at i.
RECURSIVE LocalRunEnd(_, _)
LocalRunEnd(s, i) ==
    IF i <= Len(s) /\ IsLocalChar(s[i]) THEN LocalRunEnd(s, i + 1) ELSE i - 1

\* The last position of the run of [a-zA-Z] that starts at i.
RECURSIVE LetterRunEnd(_, _)
LetterRunEnd(s, i) ==
    IF i <= Len(s) /\ IsLetter(s[i]) THEN LetterRunEnd(s, i + 1) ELSE i - 1

\* The end of the match that starts at i, 0 when there is none.  The local
\* part runs up to the "@"; each quantifier is greedy, so the domain is the
\* longest that leaves a "." and two letters, and the letters run on.
EmailMatchEnd(s, i) ==
    LET a == LocalRunEnd(s, i) + 1
        dots == {d \in (a + 2)..(Len(s) - 2) :
                    /\ s[d] = "."
                    /\ \A k \in (a + 1)..(d - 1) : IsDomainChar(s[k])
                    /\ IsLetter(s[d + 1]) /\ IsLetter(s[d + 2])}
    IN IF a > i /\ a <= Len(s) /\ s[a] = "@" /\ dots # {}
       THEN LetterRunEnd(s, (CHOOSE d \in dots : \A x \in dots : x <= d) + 1)
       ELSE 0

\* String.prototype.match without the g flag: the leftmost match.  <<>>
\* stands for null.
emailMatch(s) ==
    LET starts == {i \in 1..Len(s) : EmailMatchEnd(s, i) > 0}
    IN IF starts = {} THEN <<>>
       ELSE LET i == CHOOSE x \in starts : \A y \in starts : x <= y
            IN SubSeq(s, i, EmailMatchEnd(s, i))

(***************************************************************************)
(* The texts the user may type, and the values a caller may pass instead.  *)
(***************************************************************************)
YES == <<"y", "e", "s">>
NO == <<"n", "o">>
EDIT == <<"e", "d", "i", "t">>
RECIPIENT == <<"r", "e", "c", "i", "p", "i", "e", "n", "t">>
TO == <<"t", "o">>
CANCEL == <<"c", "a", "n", "c", "e", "l">>
MISSING == <<"M", "I", "S", "S", "I", "N", "G">>

Address == <<"a", "@", "b", ".", "i", "o">>

Texts ==
    { <<"Y", "e", "s", ",", " ", "t", "o", " ">> \o Address,              \* Yes, to a@b.io
      NO,                                                               \* no
      <<"n", "o", "t", " ", "y", "e", "s", "t", "e", "r", "d", "a", "y",
        ",", " ", "c", "a", "n", "c", "e", "l">>,                       \* not yesterday, cancel
      <<" ", "e", "d", "i", "t", " ", "h", "e", "r", " ">> }            \* " edit her "

\* req.body.message is passed on as it came: part_004:270-274
UserInputs == {Str(t) : t \in Texts} \cup {Num(42)}

(***************************************************************************)
(* part_002: the mail flow.                                                *)
(***************************************************************************)
EMAIL_TIMEOUT_MINUTES == 15     \* part_002:832   15 * 60 * 1000 ms
maxAttempts == 3                \* part_002:600

\* part_002:837 / 900 / 928 / 943 / 954   the data of a reset flow
ResetData ==
    [to |-> Str(<<>>), subject |-> "", body |-> "", purpose |-> <<>>,
     styleAnalysis |-> "null", startTime |-> Undefined, contextAnalysis |-> "undefined"]

\* part_002:24-34 and the resets
ResetState == [active |-> FALSE, stage |-> "init", data |-> ResetData]

\* The stages the switch of part_002:844-946 has a case for.
HandledStages ==
    {"collecting_recipient", "collecting_purpose", "collecting_context",
     "confirming", "editing", "generating"}

MSG_ASK_PURPOSE_FOR == "Great, I'll help you draft an email to <to>. What's the purpose of this email?"
MSG_ASK_RECIPIENT == "Who would you like to send an email to? (Please provide their email address)"
MSG_TIMEOUT == "It looks like our email drafting session timed out. Let's start over. What would you like to do?"
MSG_THANKS_PURPOSE == "Thanks! What's the purpose of your email to <to>?"
MSG_INVALID_ADDRESS == "I didn't catch a valid email address. Please provide a full email address like example@domain.com"
MSG_CLARIFY == "I can draft that email, but could you clarify <missingInfo>? This will help me write a more specific message."
MSG_DRAFT == "Here's your personalized email draft: ... Should I send this email? (yes/no)"
MSG_RESTATE == "I encountered an issue creating your email. Could you please describe the purpose again?"
MSG_SEND_ISSUE == "I encountered an issue sending your email. Please try again."
MSG_WHAT_CHANGE == "Would you like to edit the email, change the recipient, or cancel?"
MSG_CONFIRM == "Please confirm with 'yes' to send the email or 'no' to make changes."
MSG_EDIT == "Please describe again what you want to say in this email."
MSG_NEW_RECIPIENT == "Who would you like to send this email to instead?"
MSG_CANCELED == "Email canceled. What else can I help you with?"
MSG_OPTIONS == "Would you like to edit the email content, change the recipient, or cancel?"
MSG_WAIT == "I'm working on your email draft, please wait a moment..."
MSG_LOST == "I seem to have lost track of our email drafting. Let's start over. Would you like to send an email?"
MSG_UNEXPECTED == "I encountered an unexpected error while working on your email. Let's start over. What would you like to do?"
MSG_SENT == "Email sent successfully!"
MSG_SEND_ERROR == "Error sending email: <error.message>"

\* part_002:791-793
isInEmailFlowNever(st) == FALSE
isInEmailFlow(st) == st.active

\* src/services/email.js:5-35   sendEmail catches every error of the mail
\* backend and returns a text either way.
sendEmail(backendOk) ==
    [threw |-> FALSE, result |-> IF backendOk THEN MSG_SENT ELSE MSG_SEND_ERROR]

\* part_002:667-728   analyzeContextCompleteness.  gateway is what
\* model.generateContent gave: a JSON verdict, text without JSON, or an error.
\* Gives hasAllContext and missingInfo ("null" when there is none).
WordAt(s, i, w) ==
    /\ i + Len(w) - 1 <= Len(s)
    /\ \A j \in 1..Len(w) : LowerChar(s[i + j - 1]) = w[j]
    /\ (i = 1 \/ ~(IsLetter(s[i - 1]) \/ s[i - 1] \in Digits \/ s[i - 1] = "_"))
    /\ (i + Len(w) > Len(s)
        \/ ~(IsLetter(s[i + Len(w)]) \/ s[i + Len(w)] \in Digits \/ s[i + Len(w)] = "_"))

HasWord(s, w) == \E i \in 1..Len(s) : WordAt(s, i, w)

\* part_002:698-703
missingContextPatterns ==
    << [words |-> {<<"h", "e">>, <<"s", "h", "e">>, <<"t", "h", "e", "y">>,
                   <<"h", "i", "m">>, <<"h", "e", "r">>, <<"t", "h", "e", "m">>},
        issue |-> "who this person is"],
       [words |-> {<<"t", "h", "e", " ", "p", "l", "a", "n">>,
                   <<"o", "u", "r", " ", "p", "l", "a", "n">>},
        issue |-> "which plan specifically"],
       [words |-> {<<"t", "h", "e", " ", "m", "e", "e", "t", "i", "n", "g">>,
                   <<"o", "u", "r", " ", "m", "e", "e", "t", "i", "n", "g">>},
        issue |-> "which meeting"],
       [words |-> {<<"t", "h", "e", " ", "t", "e", "a", "c", "h", "e", "r">>,
                   <<"a", " ", "t", "e", "a", "c", "h", "e", "r">>},
        issue |-> "which teacher"] >>

analyzeContextCompleteness(purpose, gateway) ==
    CASE gateway = "error" ->
            [hasAllContext |-> TRUE, missingInfo |-> "null"]
      [] gateway = "json:complete" ->
            [hasAllContext |-> TRUE, missingInfo |-> "null"]
      [] gateway = "json:incomplete" ->
            [hasAllContext |-> FALSE, missingInfo |-> "what the gateway found missing"]
      [] gateway = "json:incomplete, missingInfo null" ->
            [hasAllContext |-> FALSE, missingInfo |-> "null"]
      [] OTHER ->
            LET hits == {i \in 1..Len(missingContextPatterns) :
                            \E w \in missingContextPatterns[i].words : HasWord(purpose, w)}
            IN IF hits = {} THEN [hasAllContext |-> TRUE, missingInfo |-> "null"]
               ELSE [hasAllContext |-> FALSE,
                     missingInfo |->
                        missingContextPatterns[CHOOSE i \in hits : \A j \in hits : i <= j].issue]

ContextGateway ==
    {"error", "json:complete", "json:incomplete", "json:incomplete, missingInfo null", "text"}

\* part_002:318-452   analyzeEmailContext always comes back with a profile:
\* the cached one, the analysed one, the domain heuristic or the default.
StyleProfiles == {"profile:analysed", "profile:domain"}

\* part_002:559-659   generateHumanizedEmail.  failures: how many of the
\* generateContent calls fail in a row; subject: the subject line the text
\* brought or generateNaturalSubject supplied.  The catch block reads
\* contextAnalysis, a const of the try block: evaluating it raises a
\* ReferenceError, which leaves the function.
generateHumanizedEmailWithFallback(purpose, style, failures, subject) ==
    IF failures < maxAttempts
    THEN [threw |-> FALSE, subject |-> subject, body |-> "body:generated"]
    ELSE [threw |-> FALSE, subject |-> "subject:About ...", body |-> "body:fallback"]
generateHumanizedEmail(purpose, style, failures, subject) ==
    IF failures < maxAttempts
    THEN [threw |-> FALSE, subject |-> subject, body |-> "body:generated"]
    ELSE [threw |-> TRUE, subject |-> "", body |-> ""]

Subjects == {"subject:generated"}

\* part_002:966-1006   proceedToEmailGeneration(state): sets the draft and the
\* stage on the state object it is given.
proceedToEmailGenerationLeavingStage(st, o) ==
    LET withStyle == [st EXCEPT !.data.styleAnalysis = o.style]
        generated == generateHumanizedEmail(st.data.purpose, o.style, o.failures, o.subject)
    IN IF generated.threw
       THEN [state |-> withStyle, response |-> MSG_RESTATE]
       ELSE [state |-> [withStyle EXCEPT !.data.subject = generated.subject,
                                          !.data.body = generated.body,
                                          !.stage = "confirming"],
             response |-> MSG_DRAFT]
proceedToEmailGeneration(st, o) ==
    LET withStyle == [st EXCEPT !.data.styleAnalysis = o.style]
        generated == generateHumanizedEmail(st.data.purpose, o.style, o.failures, o.subject)
    IN IF generated.threw
       THEN [state |-> [withStyle EXCEPT !.stage = "collecting_purpose"],
             response |-> MSG_RESTATE]
       ELSE [state |-> [withStyle EXCEPT !.data.subject = generated.subject,
                                          !.data.body = generated.body,
                                          !.stage = "confirming"],
             response |-> MSG_DRAFT]

\* A step of handleEmailIntent that raises, with the state as it is then.
Raised(st) ==
    [state |-> st, response |-> "", sent |-> 0, raised |-> TRUE, generation |-> "none"]

\* part_002:947-958   the catch of handleEmailIntent
onUnexpectedErrorKeepState(r) == [r EXCEPT !.response = MSG_UNEXPECTED]
onUnexpectedError(r) == [r EXCEPT !.state = ResetState, !.response = MSG_UNEXPECTED]

\* A step of handleEmailIntent that returns normally.
Returned(st, response) ==
    [state |-> st, response |-> response, sent |-> 0, raised |-> FALSE, generation |-> "none"]

\* part_002:879 / 888   return await proceedToEmailGeneration(emailState).
\* generation: whether one of the generateContent calls for the draft came
\* back, or every attempt failed.
Generated(st, o) ==
    LET g == proceedToEmailGeneration(st, o)
    IN [state |-> g.state, response |-> g.response, sent |-> 0, raised |-> FALSE,
        generation |-> IF o.failures < maxAttempts THEN "succeeded" ELSE "failed"]

\* part_002:807-829   the start of a flow
startFlowAlwaysAsks(entities, t) ==
    LET to == IF entities.to = Str(MISSING) THEN Str(<<>>) ELSE entities.to
        data == [ResetData EXCEPT !.to = to, !.startTime = Num(t)]
    IN Returned([active |-> TRUE, stage |-> "collecting_recipient", data |-> data],
                MSG_ASK_RECIPIENT)
startFlow(entities, t) ==
    LET to == IF entities.to = Str(MISSING) THEN Str(<<>>) ELSE entities.to
        data == [ResetData EXCEPT !.to = to, !.startTime = Num(t)]
    IN IF Truthy(to) /\ to # Str(<<>>)
       THEN Returned([active |-> TRUE, stage |-> "collecting_purpose", data |-> data],
                     MSG_ASK_PURPOSE_FOR)
       ELSE Returned([active |-> TRUE, stage |-> "collecting_recipient", data |-> data],
                     MSG_ASK_RECIPIENT)

\* part_002:832   Date.now() - emailState.data.startTime > 15 * 60 * 1000
\* (a comparison with NaN, when startTime is undefined, is false)
TimedOutNever(st, t) == FALSE
TimedOut(st, t) ==
    /\ st.data.startTime.type = "number"
    /\ t - st.data.startTime.n > EMAIL_TIMEOUT_MINUTES

\* part_002:845-855
collecting_recipient(st, userInput) ==
    IF userInput.type # "string" THEN Raised(st)     \* userInput.match is not a function
    ELSE LET m == emailMatch(userInput.s)
         IN IF m # <<>>
            THEN Returned([st EXCEPT !.data.to = Str(m), !.stage = "collecting_purpose"],
                          MSG_THANKS_PURPOSE)
            ELSE Returned(st, MSG_INVALID_ADDRESS)

\* part_002:857-880
collecting_purpose(st, userInput, o) ==
    IF userInput.type # "string" THEN Raised(st)     \* userInput.trim is not a function
    ELSE LET checking == [st EXCEPT !.data.purpose = trim(userInput.s),
                                    !.stage = "checking_context"]
             contextAnalysis == analyzeContextCompleteness(checking.data.purpose, o.context)
         IN IF ~contextAnalysis.hasAllContext /\ contextAnalysis.missingInfo # "null"
            THEN Returned([checking EXCEPT !.stage = "collecting_context",
                                           !.data.contextAnalysis = contextAnalysis.missingInfo],
                          MSG_CLARIFY)
            ELSE Generated([checking EXCEPT !.stage = "generating"], o)

\* part_002:882-888
collecting_context(st, userInput, o) ==
    IF userInput.type # "string" THEN Raised(st)
    ELSE Generated([st EXCEPT !.data.purpose = @ \o <<" ">> \o trim(userInput.s),
                              !.stage = "generating"], o)

\* part_002:890-914
confirming(st, userInput, o) ==
    IF userInput.type # "string" THEN Raised(st)     \* userInput.toLowerCase is not a function
    ELSE IF includes(toLowerCase(userInput.s), YES)
         THEN LET sending == sendEmail(o.backendOk)
              IN IF sending.threw
                 THEN [Returned(st, MSG_SEND_ISSUE) EXCEPT !.sent = 1]
                 ELSE [Returned(ResetState, sending.result) EXCEPT !.sent = 1]
         ELSE IF includes(toLowerCase(userInput.s), NO)
              THEN Returned([st EXCEPT !.stage = "editing"], MSG_WHAT_CHANGE)
              ELSE Returned(st, MSG_CONFIRM)

\* part_002:916-933
editing(st, userInput) ==
    IF userInput.type # "string" THEN Raised(st)
    ELSE LET text == toLowerCase(userInput.s)
         IN IF includes(text, EDIT)
            THEN Returned([st EXCEPT !.stage = "collecting_purpose"], MSG_EDIT)
            ELSE IF includes(text, RECIPIENT) \/ includes(text, TO)
                 THEN Returned([st EXCEPT !.stage = "collecting_recipient"], MSG_NEW_RECIPIENT)
                 ELSE IF includes(text, CANCEL)
                      THEN Returned(ResetState, MSG_CANCELED)
                      ELSE Returned(st, MSG_OPTIONS)

\* part_002:801-959   handleEmailIntent(userInput, entities) at time t, with
\* the outcomes o of the external calls it makes.
handleEmailIntent(st, userInput, entities, t, o) ==
    LET try ==
            IF ~st.active THEN startFlow(entities, t)
            ELSE IF TimedOut(st, t) THEN Returned(ResetState, MSG_TIMEOUT)
            ELSE CASE st.stage = "collecting_recipient" -> collecting_recipient(st, userInput)
                   [] st.stage = "collecting_purpose" -> collecting_purpose(st, userInput, o)
                   [] st.stage = "collecting_context" -> collecting_context(st, userInput, o)
                   [] st.stage = "confirming" -> confirming(st, userInput, o)
                   [] st.stage = "editing" -> editing(st, userInput)
                   [] st.stage = "generating" -> Returned(st, MSG_WAIT)
                   [] OTHER -> Returned(ResetState, MSG_LOST)
    IN IF try.raised THEN onUnexpectedError(try) ELSE try

\* The stage handler the turn's input went to, if any.
HandlerOf(st, t) ==
    IF ~st.active THEN "start"
    ELSE IF TimedOut(st, t) THEN "timeout"
    ELSE IF st.stage \in HandledStages THEN st.stage ELSE "default"

(***************************************************************************)
(* src/services/auth/googleAuth.js: the entities of a mail request.        *)
(***************************************************************************)
\* What handleEmailIntent reads of the entities object: whether it has any
\* key at all, and its "to".
EmptyEntities == [empty |-> TRUE, to |-> Undefined]
EmailData(to) == [empty |-> FALSE, to |-> to]

FRIEND == <<"f", "r", "i", "e", "n", "d", "@", "e", "x", "a", "m", "p", "l", "e", ".", "c", "o", "m">>

\* to\s+([^\s]+)  and, with needAt,  to\s+([^\s]+@[^\s]+)  matched at i:
\* <<first, last>> character of the group, <<>> when there is no match.  The
\* group is the whole run of non-blank characters after the blanks.
ToMatchAt(s, i, needAt) ==
    IF i + 3 > Len(s) \/ s[i] # "t" \/ s[i + 1] # "o" \/ ~IsSpace(s[i + 2]) THEN <<>>
    ELSE LET j == SpaceRunEnd(s, i + 2) + 1
             e == NonSpaceRunEnd(s, j)
         IN IF e < j \/ (needAt /\ ~\E k \in (j + 1)..(e - 1) : s[k] = "@") THEN <<>>
            ELSE <<j, e>>

\* text.match(...)[1] of the leftmost match; <<>> stands for no match.
toMatch(s, needAt) ==
    LET starts == {i \in 1..Len(s) : ToMatchAt(s, i, needAt) # <<>>}
    IN IF starts = {} THEN <<>>
       ELSE LET m == ToMatchAt(s, CHOOSE x \in starts : \A y \in starts : x <= y, needAt)
            IN SubSeq(s, m[1], m[2])

\* What model.generateContent gives for the extraction prompt: an error, text
\* without a JSON object, text with braces that JSON.parse rejects, or a JSON
\* object with the given "to" (undefined when the object has no such key).
ExtractionGateway ==
    {[kind |-> k, to |-> Undefined] : k \in {"error", "text", "bad json"}}
    \cup {[kind |-> "json", to |-> to] :
            to \in {Undefined, Str(MISSING), Str(<<>>), Str(Address)}}

\* googleAuth.js:392-511, intentType 'email_intent'.  calls: the number of
\* generateContent calls made.
extractEntities(text, st, gateway) ==
    IF isInEmailFlow(st) THEN [entities |-> EmptyEntities, calls |-> 0]
    ELSE CASE gateway.kind = "error" ->
                LET m == toMatch(text, FALSE)
                IN [entities |-> EmailData(Str(IF m # <<>> THEN m ELSE FRIEND)), calls |-> 1]
           [] gateway.kind = "json" ->
                [entities |-> IF gateway.to = Undefined THEN EmptyEntities
                              ELSE EmailData(gateway.to),
                 calls |-> 1]
           [] gateway.kind = "bad json" ->
                LET m == toMatch(text, TRUE)
                IN [entities |-> EmailData(Str(IF m # <<>> THEN m ELSE MISSING)), calls |-> 1]
           [] OTHER ->
                [entities |-> EmailData(Str(MISSING)), calls |-> 1]

\* googleAuth.js:618-626, 682   processInput hands handleEmailIntent {} while
\* the flow is active, and the extracted entities when it starts one: no
\* recipient found, none named in the answer, or an address.
Entities == {EmptyEntities, EmailData(Str(MISSING)), EmailData(Str(Address))}

EntitiesFor(st) == IF isInEmailFlow(st) THEN {EmptyEntities} ELSE Entities

(***************************************************************************)
(* The outcomes of the external calls of one turn.                         *)
(***************************************************************************)
\* The first call succeeds, the last attempt succeeds, or every attempt fails
\* (and then there is no subject to choose).
GenerationOutcomes ==
    {[style |-> s, failures |-> f, subject |-> j] :
        s \in StyleProfiles, f \in {0, maxAttempts - 1}, j \in Subjects}
    \cup {[style |-> s, failures |-> maxAttempts, subject |-> ""] : s \in StyleProfiles}

NoOutcome ==
    [context |-> "json:complete", style |-> "profile:analysed", failures |-> 0,
     subject |-> "subject:generated", backendOk |-> TRUE]

\* Only the calls the turn makes have an outcome to choose.
OutcomesAt(st, t) ==
    IF ~st.active \/ TimedOut(st, t) THEN {NoOutcome}
    ELSE CASE st.stage = "collecting_purpose" ->
                {[NoOutcome EXCEPT !.context = c, !.style = g.style,
                                   !.failures = g.failures, !.subject = g.subject] :
                    c \in ContextGateway, g \in GenerationOutcomes}
           [] st.stage = "collecting_context" ->
                {[NoOutcome EXCEPT !.style = g.style, !.failures = g.failures,
                                   !.subject = g.subject] : g \in GenerationOutcomes}
           [] st.stage = "confirming" ->
                {[NoOutcome EXCEPT !.backendOk = b] : b \in BOOLEAN}
           [] OTHER -> {NoOutcome}

(***************************************************************************)
(* History of the turns, for the statements about them.                    *)
(***************************************************************************)
\* The answer "no", whatever its case and the blanks around it.
IsNo(v) == v.type = "string" /\ toLowerCase(trim(v.s)) = NO

\* An answer that says yes and does not say no.
UnambiguousYes(v) ==
    /\ v.type = "string"
    /\ HasWord(v.s, YES)
    /\ ~includes(toLowerCase(v.s), NO)

\* draftCurrent: the flow's latest draft was generated for the recipient and
\* the purpose the flow holds;
\* sendsInFlow: the sendEmail calls since the flow was last started;
\* no: the turn's input was "no"; afterNo: the turn before was a "no" given at
\* stage confirming.
NoTurn ==
    [op |-> "none", input |-> Undefined, entities |-> EmptyEntities, calls |-> 0,
     activeBefore |-> FALSE, stageBefore |-> "init", elapsed |-> -1, handler |-> "none",
     response |-> "", sent |-> 0, raised |-> FALSE, generation |-> "none",
     sendsInFlow |-> 0, no |-> FALSE, afterNo |-> FALSE, draftCurrent |-> FALSE]

\* The assistant as loaded: no flow, no turn yet.
MailIdle ==
    /\ emailState = ResetState
    /\ clock = 0
    /\ turn = NoTurn

(***************************************************************************)
(* Dates and times of the scheduling flow.  An instant is a number of      *)
(* minutes; minute 0 is the midnight that starts the day the process is    *)
(* in, and the process runs in UTC, so that a "YYYY-MM-DD" date and the    *)
(* local day setHours works on are the same day.                           *)
(***************************************************************************)
\* A date as parseDateAndTime gives it: null, the "YYYY-MM-DD" of the day
\* that is `day` days from today, or text that is no date.
NullDate == [given |-> FALSE, valid |-> FALSE, day |-> 0]
IsoDate(d) == [given |-> TRUE, valid |-> TRUE, day |-> d]
BadDate == [given |-> TRUE, valid |-> FALSE, day |-> 0]

\* A Date object: an instant, or Invalid Date.
InvalidDate == [valid |-> FALSE, t |-> 0]
Instant(t) == [valid |-> TRUE, t |-> t]

\* new Date("YYYY-MM-DD")
NewDate(date) == IF date.valid THEN Instant(date.day * 24 * 60) ELSE InvalidDate

\* A field that holds null, the ISO string of an instant, or other text.
NoTime == [given |-> FALSE, valid |-> FALSE, t |-> 0]
IsoTime(t) == [given |-> TRUE, valid |-> TRUE, t |-> t]
OtherText == [given |-> TRUE, valid |-> FALSE, t |-> 0]

\* Number(text): the value of the digits, 0 for blank text, NaN otherwise.
NaN == -1

DigitChars == <<"0", "1", "2", "3", "4", "5", "6", "7", "8", "9">>

DigitOf == [c \in Digits |-> (CHOOSE i \in 1..10 : DigitChars[i] = c) - 1]

RECURSIVE DigitsValue(_, _, _)
DigitsValue(s, i, acc) ==
    IF i > Len(s) THEN acc ELSE DigitsValue(s, i + 1, acc * 10 + DigitOf[s[i]])

Number(s) ==
    LET x == trim(s)
    IN IF \A i \in 1..Len(x) : x[i] \in Digits THEN DigitsValue(x, 1, 0) ELSE NaN

\* The first position at or after i that holds c (0 when there is none).
RECURSIVE IndexOf(_, _, _)
IndexOf(s, c, i) ==
    IF i > Len(s) THEN 0 ELSE IF s[i] = c THEN i ELSE IndexOf(s, c, i + 1)

\* part_004:97   time.split(':').map(Number), of which the first two are
\* taken; a part that is not there is undefined, which setHours reads as NaN.
SplitTime(time) ==
    LET c1 == IndexOf(time, ":", 1)
        c2 == IF c1 = 0 THEN 0 ELSE IndexOf(time, ":", c1 + 1)
    IN IF c1 = 0 THEN [hours |-> Number(time), minutes |-> NaN]
       ELSE [hours |-> Number(SubSeq(time, 1, c1 - 1)),
             minutes |-> Number(SubSeq(time, c1 + 1,
                                       IF c2 = 0 THEN Len(time) ELSE c2 - 1))]

\* part_004:98-99   new Date(dateObj).setHours(hours, minutes, 0, 0)
setHours(dateObj, hours, minutes) ==
    IF dateObj.valid /\ hours # NaN /\ minutes # NaN
    THEN Instant(dateObj.t - (dateObj.t % (24 * 60)) + hours * 60 + minutes)
    ELSE InvalidDate

\* part_004:100-101   setMinutes(getMinutes() + duration)
setMinutes(dateObj, duration) ==
    IF dateObj.valid /\ duration # NaN THEN Instant(dateObj.t + duration) ELSE InvalidDate

\* Two digits and a colon and two digits, as padStart(2, '0') writes them.
TwoDigits(n) == <<DigitChars[(n \div 10) + 1], DigitChars[(n % 10) + 1]>>

(***************************************************************************)
(* parseDateAndTime (src/services/calendar/eventAnalyzer.js:11-157).       *)
(***************************************************************************)
IsWordChar(c) == IsLetter(c) \/ c \in Digits \/ c = "_"

\* \b between positions i - 1 and i
WordBoundary(s, i) ==
    LET before == i > 1 /\ i - 1 <= Len(s) /\ IsWordChar(s[i - 1])
        after == i >= 1 /\ i <= Len(s) /\ IsWordChar(s[i])
    IN before # after

DigitAt(s, i) == i <= Len(s) /\ s[i] \in Digits

CharIn(s, i, chars) == i <= Len(s) /\ s[i] \in chars

\* s holds w at i, whatever the case.
TextAt(s, i, w) ==
    /\ i + Len(w) - 1 <= Len(s)
    /\ \A j \in 1..Len(w) : LowerChar(s[i + j - 1]) = w[j]

TOMORROW == <<"t", "o", "m", "o", "r", "r", "o", "w">>
TODAY == <<"t", "o", "d", "a", "y">>

\* eventAnalyzer.js:68   the text dateRegex matches first: "tomorrow" or
\* "today" ("none" when neither is there).  The inputs of the model hold no
\* YYYY-MM-DD date and no "next <weekday>".
RECURSIVE dateMatch(_, _)
dateMatch(s, i) ==
    IF i > Len(s) THEN "none"
    ELSE IF TextAt(s, i, TOMORROW) THEN "tomorrow"
    ELSE IF TextAt(s, i, TODAY) THEN "today"
    ELSE dateMatch(s, i + 1)

\* eventAnalyzer.js:69   \b([01]?[0-9]|2[0-3]):[0-5][0-9]\b at i: the
\* position of its last character (0 when it does not match).
ClockTail(s, j) ==
    /\ CharIn(s, j, {":"}) /\ CharIn(s, j + 1, {"0", "1", "2", "3", "4", "5"})
    /\ DigitAt(s, j + 2) /\ WordBoundary(s, j + 3)

ClockMatchEnd(s, i) ==
    IF ~WordBoundary(s, i) THEN 0
    ELSE IF CharIn(s, i, {"0", "1"}) /\ DigitAt(s, i + 1) /\ ClockTail(s, i + 2)
         THEN i + 4
    ELSE IF DigitAt(s, i) /\ ClockTail(s, i + 1) THEN i + 3
    ELSE IF CharIn(s, i, {"2"}) /\ CharIn(s, i + 1, {"0", "1", "2", "3"})
            /\ ClockTail(s, i + 2)
         THEN i + 4
    ELSE 0

\* eventAnalyzer.js:69   \s*(am|pm)\b from j on: the position of the m.
MeridiemEnd(s, j) ==
    LET k == SpaceRunEnd(s, j) + 1
    IN IF k + 1 <= Len(s) /\ LowerChar(s[k]) \in {"a", "p"} /\ LowerChar(s[k + 1]) = "m"
          /\ WordBoundary(s, k + 2)
       THEN k + 1 ELSE 0

\* (:[0-5][0-9])?\s*(am|pm)\b from j on, the minutes tried first.
MinutesMeridiemEnd(s, j) ==
    IF CharIn(s, j, {":"}) /\ CharIn(s, j + 1, {"0", "1", "2", "3", "4", "5"})
       /\ DigitAt(s, j + 2) /\ MeridiemEnd(s, j + 3) # 0
    THEN MeridiemEnd(s, j + 3)
    ELSE MeridiemEnd(s, j)

\* eventAnalyzer.js:69   \b(1[0-2]|0?[1-9])(:[0-5][0-9])?\s*(am|pm)\b at i
MeridiemMatchEnd(s, i) ==
    IF ~WordBoundary(s, i) THEN 0
    ELSE IF CharIn(s, i, {"1"}) /\ CharIn(s, i + 1, {"0", "1", "2"})
            /\ MinutesMeridiemEnd(s, i + 2) # 0
         THEN MinutesMeridiemEnd(s, i + 2)
    ELSE IF CharIn(s, i, {"0"}) /\ CharIn(s, i + 1, Digits \ {"0"})
            /\ MinutesMeridiemEnd(s, i + 2) # 0
         THEN MinutesMeridiemEnd(s, i + 2)
    ELSE IF CharIn(s, i, Digits \ {"0"}) THEN MinutesMeridiemEnd(s, i + 1)
    ELSE 0

\* userInput.match(timeRegex)[0], lower-cased (<<>> when there is no match)
RECURSIVE timeMatch(_, _)
timeMatch(s, i) ==
    IF i > Len(s) THEN <<>>
    ELSE IF ClockMatchEnd(s, i) # 0 THEN toLowerCase(SubSeq(s, i, ClockMatchEnd(s, i)))
    ELSE IF MeridiemMatchEnd(s, i) # 0
         THEN toLowerCase(SubSeq(s, i, MeridiemMatchEnd(s, i)))
    ELSE timeMatch(s, i + 1)

\* eventAnalyzer.js:114-116, 128-132   the hour of the 24-hour clock
To24Hour(hour, isPM) ==
    IF isPM /\ hour < 12 THEN hour + 12
    ELSE IF ~isPM /\ hour = 12 THEN 0
    ELSE hour

\* parseInt(text, 10): the value of the digits the text starts with.
RECURSIVE DigitRunEnd(_, _)
DigitRunEnd(s, i) == IF DigitAt(s, i) THEN DigitRunEnd(s, i + 1) ELSE i - 1

parseInt(s) ==
    IF DigitAt(s, 1) THEN DigitsValue(SubSeq(s, 1, DigitRunEnd(s, 1)), 1, 0) ELSE NaN

PM == <<"p", "m">>
AM == <<"a", "m">>

\* eventAnalyzer.js:102-137   the "HH:MM" text made of the matched time
\* (<<>> is null).  With minutes, the text after the colon is cut at the
\* first blank only, so "9:30pm" gives "21:30pm".
timeOfMatch(timeText) ==
    LET colon == IndexOf(timeText, ":", 1)
        isPM == includes(timeText, PM)
    IN IF timeText = <<>> THEN <<>>
       ELSE IF colon # 0
       THEN IF includes(timeText, AM) \/ isPM
            THEN LET minutesPart == SubSeq(timeText, colon + 1, Len(timeText))
                     minutes == SubSeq(minutesPart, 1, NonSpaceRunEnd(minutesPart, 1))
                     hour == To24Hour(parseInt(SubSeq(timeText, 1, colon - 1)), isPM)
                 IN TwoDigits(hour) \o <<":">> \o minutes
            ELSE timeText
       ELSE TwoDigits(To24Hour(parseInt(timeText), isPM)) \o <<":", "0", "0">>

\* eventAnalyzer.js:140-141   the text before the first blanks that are
\* followed by on, at, from, tomorrow, today, with or for; "New Event" when
\* that is empty.
TitleStops == {<<"o", "n">>, <<"a", "t">>, <<"f", "r", "o", "m">>, TOMORROW, TODAY, <<"w", "i", "t", "h">>, <<"f", "o", "r">>}

NEW_EVENT == <<"N", "e", "w", " ", "E", "v", "e", "n", "t">>

RECURSIVE titleEnd(_, _)
titleEnd(s, i) ==
    IF i > Len(s) THEN Len(s)
    ELSE IF IsSpace(s[i])
            /\ \E w \in TitleStops : TextAt(s, SpaceRunEnd(s, i) + 1, w)
         THEN i - 1
    ELSE titleEnd(s, i + 1)

titleOf(s) ==
    LET first == trim(SubSeq(s, 1, titleEnd(s, 1)))
    IN IF first = <<>> THEN NEW_EVENT ELSE first

\* What the gateway's JSON holds (ok), or no usable JSON.  <<>> is a null
\* text, duration 0 a duration of 0 or null.
Parsed(date, time, endTime, duration, title, attendees) ==
    [ok |-> TRUE, date |-> date, time |-> time, endTime |-> endTime,
     duration |-> duration, title |-> title, attendees |-> attendees]

NoJson == [Parsed(NullDate, <<>>, <<>>, 0, <<>>, <<>>) EXCEPT !.ok = FALSE]

\* eventAnalyzer.js:49-55   the duration from start and end clock times
inferDurationNeverWrapping(time, endTime) ==
    LET s == SplitTime(time)
        e == SplitTime(endTime)
        d == (e.hours * 60 + e.minutes) - (s.hours * 60 + s.minutes)
    IN IF NaN \in {s.hours, s.minutes, e.hours, e.minutes} THEN NaN ELSE d
inferDuration(time, endTime) ==
    LET s == SplitTime(time)
        e == SplitTime(endTime)
        d == (e.hours * 60 + e.minutes) - (s.hours * 60 + s.minutes)
    IN IF NaN \in {s.hours, s.minutes, e.hours, e.minutes} THEN NaN
       ELSE IF d <= 0 THEN d + 24 * 60 ELSE d

\* eventAnalyzer.js:66-156   the regex fallback.  The inputs of the model
\* hold one address at most.
regexParseDateAndTime(text) ==
    LET d == dateMatch(text, 1)
    IN Parsed(IF d = "today" THEN IsoDate(0)
              ELSE IF d = "tomorrow" THEN IsoDate(1) ELSE NullDate,
              timeOfMatch(timeMatch(text, 1)), <<>>, 60, titleOf(text),
              IF emailMatch(text) = <<>> THEN <<>> ELSE <<emailMatch(text)>>)

\* The texts the model parses.
STANDUP == <<"S", "t", "a", "n", "d", "u", "p">>
STANDUP_REQUEST == <<"S", "c", "h", "e", "d", "u", "l", "e", " ", "a", " ", "m", "e", "e", "t", "i", "n", "g", " ", "c", "a", "l", "l", "e", "d", " ", "S", "t", "a", "n", "d", "u", "p", " ", "t", "o", "m", "o", "r", "r", "o", "w", " ", "a", "t", " ", "9", "a", "m">>
SYNC_REQUEST == <<"s", "y", "n", "c", " ", "t", "o", "d", "a", "y", " ", "0", "0", ":", "1", "0">>

ScheduleTexts ==
    {STANDUP_REQUEST, SYNC_REQUEST, TOMORROW, <<"Y", "e", "s">>, NO, <<"y", "e", "s", " ", "p", "l", "e", "a", "s", "e">>, <<" ", "1", " ">>}

\* What reaches the flow: text, the empty text, a message that is no text.
ScheduleInputs == {Str(t) : t \in ScheduleTexts} \cup {Str(<<>>), Num(42)}

\* The texts of the turns that reach the orchestrator.
ONE == <<"1">>
MAIL_REQUEST == <<"e", "m", "a", "i", "l", " ", "a", "@", "b", ".", "i", "o">>
ChatTexts == {STANDUP_REQUEST, YES, ONE, MAIL_REQUEST}

\* The texts that answer a list of numbered options.
THREE == <<"3">>
SIX == <<"6">>
SuggestTexts == {TOMORROW, ONE, <<" ", "1", " ">>, THREE, SIX, NO}

\* The texts that answer the suggestions of the enhanced schedule handler.
SCHEDULE_TWO == <<"S", "c", "h", "e", "d", "u", "l", "e", " ", "#", "2">>
SelectTexts == {STANDUP_REQUEST, ONE, THREE, SIX, SCHEDULE_TWO}

\* The regex fallback's result for each of the texts.
RegexParsed ==
    [text \in ScheduleTexts \cup ChatTexts \cup SuggestTexts \cup SelectTexts |->
        regexParseDateAndTime(text)]

\* eventAnalyzer.js:11-157   gateway is what model.generateContent gave;
\* without usable JSON the result is that of the regex fallback.
parseDateAndTime(userInput, gateway) ==
    IF userInput.type # "string" \/ userInput.s = <<>>
    THEN Parsed(NullDate, <<>>, <<>>, 60, NEW_EVENT, <<>>)
    ELSE IF gateway.ok
    THEN IF gateway.time # <<>> /\ gateway.endTime # <<>> /\ gateway.duration = 0
         THEN [gateway EXCEPT !.duration = inferDuration(gateway.time, gateway.endTime)]
         ELSE gateway
    ELSE RegexParsed[userInput.s]

(***************************************************************************)
(* The scheduling flow (src/unnamed/part_004:1-188).                       *)
(***************************************************************************)
SCHEDULE_TIMEOUT_MINUTES == 10      \* part_004:123   10 * 60 * 1000 ms

\* part_004:10-26, 73-89   the data of a flow started at time t.  The
\* description, which no stage reads, is left out.
ScheduleData(t) ==
    [title |-> <<>>, date |-> NullDate, time |-> <<>>, duration |-> 60,
     attendees |-> <<>>, suggestedTimes |-> <<>>, dateObj |-> InvalidDate,
     startTime |-> NoTime, endTime |-> NoTime, startTimestamp |-> t]

ScheduleLoaded == [active |-> FALSE, stage |-> "init", data |-> ScheduleData(0)]

SCHED_PROVIDE_DETAILS == "Please provide details for what you'd like to schedule."
SCHED_OPTIONS == "Based on your event purpose and existing calendar patterns, here are some optimal time slot suggestions: ..."
SCHED_NO_SLOTS == "No available time slots found for the selected day."
SCHED_CONFIRM_LITERAL == "I'll schedule <title> on <date> at <parsed.time> for <duration> minutes. Does this look correct? (yes/no)"
SCHED_CONFIRM_SLOT == "I'll schedule <title> for <displayText>. Does this look correct? (yes/no)"
SCHED_ASK_DATE == "What date would you like to schedule <title> for?"
SCHED_TIMEOUT == "The scheduling session timed out. Let's start over."
SCHED_BAD_DATE == "I couldn't understand the date. Please provide a valid date."
SCHED_BAD_OPTION == "Please select a valid option."
SCHED_BAD_SELECTION == "Please select a valid option or provide a specific time."
SCHED_DONE == "Your event <title> has been scheduled successfully!"
SCHED_START_OVER == "Okay, let's start over."
SCHED_YES_OR_NO == "Please respond with 'yes' or 'no'."
SCHED_CLARIFY == "I'm not sure how to proceed. Can you clarify?"
SCHED_ERROR == "I encountered an error while trying to schedule. Please try again."

\* A time slot as analyzeEventPatterns and findAvailableTimeSlots give it.
Slot(start, end, displayText) == [start |-> start, end |-> end, displayText |-> displayText]

\* eventAnalyzer.js:196-238   analyzeEventPatterns: what the gateway
\* suggested, [] when the date is no date (toISOString raises inside its try).
analyzeEventPatterns(targetDate, gatewaySlots) ==
    IF targetDate.valid THEN gatewaySlots ELSE <<>>

\* part_004:46   await findAvailableTimeSlots(targetDate, duration): the free
\* slots it found on the calendar, [] when the date is no date.
foundTimeSlots(targetDate, freeSlots) ==
    IF targetDate.valid THEN freeSlots ELSE <<>>

\* A step of handleScheduleIntent that returns: the state it leaves, the
\* response, the event details createCalendarEvent was called with.
ScheduleReturned(st, response) ==
    [state |-> st, response |-> response, created |-> <<>>, raised |-> FALSE]

\* A step that raises, with the state as it is then.
ScheduleRaised(st) ==
    [state |-> st, response |-> "", created |-> <<>>, raised |-> TRUE]

\* part_004:33-61   suggestAvailableTimes at time t
suggestAvailableTimes(st, t, o) ==
    LET targetDate == IF st.data.date.given THEN NewDate(st.data.date) ELSE Instant(t)
        analysed == analyzeEventPatterns(targetDate, o.patterns)
        suggestions == IF Len(analysed) = 0
                       THEN foundTimeSlots(targetDate, o.slots)
                       ELSE analysed
    IN ScheduleReturned([st EXCEPT !.data.suggestedTimes = suggestions],
                        IF Len(suggestions) > 0 THEN SCHED_OPTIONS ELSE SCHED_NO_SLOTS)

\* part_003:110-130   checkForConflicts: the events the calendar lists in
\* the interval, none when the calendar cannot be reached.
checkForConflicts(o) == IF o.calendarOk /\ o.overlap THEN 1 ELSE 0

\* part_004:106   the start is refused: it is past, or the calendar lists
\* an event in the interval.
StartRefusedOnConflictOnly(startTime, t, o) == checkForConflicts(o) > 0
StartRefused(startTime, t, o) == startTime.t < t \/ checkForConflicts(o) > 0

\* part_004:94-120   the stage the start of a flow leads to
activationStageTrustingDate(dateGiven, timeGiven, refused) ==
    IF ~dateGiven THEN "collecting_date"
    ELSE IF timeGiven /\ refused THEN "suggesting_time" ELSE "confirming"

activationStage(dateGiven, timeGiven, refused) ==
    IF ~dateGiven THEN "collecting_date"
    ELSE IF timeGiven /\ ~refused THEN "confirming" ELSE "suggesting_time"

\* part_004:73-95   scheduleState as the start of a flow sets it from the
\* parse, at time t
activatedState(parsed, t) ==
    LET st1 == [active |-> TRUE, stage |-> "parsing_request",
                data |-> [ScheduleData(t) EXCEPT
                            !.title = parsed.title, !.date = parsed.date,
                            !.time = parsed.time, !.duration = parsed.duration,
                            !.attendees = parsed.attendees,
                            !.endTime = IF parsed.endTime = <<>> THEN NoTime ELSE OtherText]]
    IN IF parsed.date.given
       THEN [st1 EXCEPT !.data.dateObj = NewDate(parsed.date)] ELSE st1

\* part_004:96-120   the start and the end of the event computed from the
\* hours and minutes hm of the parsed time, and the stage chosen
activateFrom(parsed, st2, hm, t, o) ==
    LET timed == parsed.date.given /\ parsed.time # <<>>
        startTime == setHours(st2.data.dateObj, hm.hours, hm.minutes)
        endTime == setMinutes(startTime, st2.data.duration)
        st3 == IF timed
               THEN [st2 EXCEPT !.data.startTime = IsoTime(startTime.t),
                                !.data.endTime = IsoTime(endTime.t)]
               ELSE st2
        stage == activationStage(parsed.date.given, parsed.time # <<>>,
                                 timed /\ StartRefused(startTime, t, o))
    IN IF timed /\ ~startTime.valid THEN ScheduleRaised(st2)
       ELSE IF timed /\ ~endTime.valid
       THEN ScheduleRaised([st2 EXCEPT !.data.startTime = IsoTime(startTime.t)])
       ELSE CASE stage = "collecting_date" ->
                    ScheduleReturned([st3 EXCEPT !.stage = stage], SCHED_ASK_DATE)
              [] stage = "confirming" ->
                    ScheduleReturned([st3 EXCEPT !.stage = stage], SCHED_CONFIRM_LITERAL)
              [] OTHER ->
                    suggestAvailableTimes([st3 EXCEPT !.stage = stage], t, o)

activateParsed(parsed, t, o) ==
    activateFrom(parsed, activatedState(parsed, t), SplitTime(parsed.time), t, o)

\* part_004:72-121   the start of a flow
activate(userInput, t, o) ==
    activateParsed(parseDateAndTime(userInput, o.parse), t, o)

\* part_004:123   the flow is older than ten minutes
ScheduleTimedOutNever(st, t) == FALSE
ScheduleTimedOut(st, t) == t - st.data.startTimestamp > SCHEDULE_TIMEOUT_MINUTES

\* part_004:131-138   the date the answer gave, or none
collectedDate(st, dateResponse, t, o) ==
    IF dateResponse.date.given
    THEN suggestAvailableTimes(
             [st EXCEPT !.data.date = dateResponse.date,
                        !.data.dateObj = NewDate(dateResponse.date),
                        !.stage = "suggesting_time"], t, o)
    ELSE ScheduleReturned(st, SCHED_BAD_DATE)

\* part_004:129-139
scheduleCollectingDate(st, userInput, t, o) ==
    collectedDate(st, parseDateAndTime(userInput, o.parse), t, o)

\* part_004:141-155
scheduleSuggestingTime(st, userInput) ==
    LET text == trim(userInput.s)
        selectedIndex == parseInt(text)
    IN IF Len(text) = 1 /\ text[1] \in {"1", "2", "3", "4", "5"}
       THEN IF selectedIndex <= Len(st.data.suggestedTimes)
            THEN LET selected == st.data.suggestedTimes[selectedIndex]
                 IN ScheduleReturned([st EXCEPT !.data.startTime = IsoTime(selected.start),
                                                !.data.endTime = IsoTime(selected.end),
                                                !.stage = "confirming"],
                                     SCHED_CONFIRM_SLOT)
            ELSE ScheduleReturned(st, SCHED_BAD_OPTION)
       ELSE ScheduleReturned(st, SCHED_BAD_SELECTION)

\* part_004:159-165   the details createCalendarEvent is called with
eventDetails(st) ==
    [title |-> st.data.title, startTime |-> st.data.startTime,
     endTime |-> st.data.endTime, attendees |-> st.data.attendees]

\* part_004:157-174
scheduleConfirmingOnAnyYes(st, userInput) ==
    IF includes(toLowerCase(userInput.s), YES)
    THEN [ScheduleReturned([st EXCEPT !.active = FALSE], SCHED_DONE)
            EXCEPT !.created = <<eventDetails(st)>>]
    ELSE IF toLowerCase(userInput.s) = NO
    THEN ScheduleReturned([st EXCEPT !.active = FALSE], SCHED_START_OVER)
    ELSE ScheduleReturned(st, SCHED_YES_OR_NO)

scheduleConfirming(st, userInput) ==
    IF toLowerCase(userInput.s) = YES
    THEN [ScheduleReturned([st EXCEPT !.active = FALSE], SCHED_DONE)
            EXCEPT !.created = <<eventDetails(st)>>]
    ELSE IF toLowerCase(userInput.s) = NO
    THEN ScheduleReturned([st EXCEPT !.active = FALSE], SCHED_START_OVER)
    ELSE ScheduleReturned(st, SCHED_YES_OR_NO)

\* part_004:179-182   the catch of handleScheduleIntent: its message is
\* returned and scheduleState left as the raising step left it
scheduleCatch(try) ==
    IF try.raised THEN [try EXCEPT !.response = SCHED_ERROR] ELSE try

\* part_004:66-183   handleScheduleIntent(userInput) at time t, with the
\* outcomes o of the external calls it makes.  The catch returns its
\* message and leaves scheduleState as the raising step left it.
handleScheduleIntent(st, userInput, t, o) ==
    scheduleCatch(
        IF userInput.type # "string" \/ userInput.s = <<>>
        THEN ScheduleReturned(st, SCHED_PROVIDE_DETAILS)
        ELSE IF ~st.active THEN activate(userInput, t, o)
        ELSE IF ScheduleTimedOut(st, t)
        THEN ScheduleReturned([st EXCEPT !.active = FALSE], SCHED_TIMEOUT)
        ELSE CASE st.stage = "collecting_date" -> scheduleCollectingDate(st, userInput, t, o)
               [] st.stage = "suggesting_time" -> scheduleSuggestingTime(st, userInput)
               [] st.stage = "confirming" -> scheduleConfirming(st, userInput)
               [] OTHER -> ScheduleReturned(st, SCHED_CLARIFY))

\* The part of handleScheduleIntent the turn's input went to.
ScheduleHandlerOf(st, userInput, t) ==
    IF userInput.type # "string" \/ userInput.s = <<>> THEN "refused"
    ELSE IF ~st.active THEN "activation"
    ELSE IF ScheduleTimedOut(st, t) THEN "timeout"
    ELSE IF st.stage \in {"collecting_date", "suggesting_time", "confirming"} THEN st.stage
    ELSE "default"

(***************************************************************************)
(* The inputs of the scheduling flow and the outcomes of its calls.        *)
(***************************************************************************)
\* What the gateway may answer to the parsing prompt for a text: no usable
\* JSON, or JSON with what the text says - and then with a time that is
\* HH:MM or is not, with an end time in place of a duration, with the date
\* left out, with the word for the date in place of the date.
ParseGateway(text) ==
    {NoJson} \cup
    CASE text = STANDUP_REQUEST ->
            {Parsed(IsoDate(1), <<"0", "9", ":", "0", "0">>, <<>>, 60, STANDUP, <<>>),
             Parsed(IsoDate(1), <<"9", ":", "0", "0", " ", "A", "M">>, <<>>, 60, STANDUP, <<>>),
             Parsed(IsoDate(1), <<"0", "9", ":", "0", "0">>, <<"0", "9", ":", "3", "0">>, 0, STANDUP, <<Address>>),
             Parsed(NullDate, <<"0", "9", ":", "0", "0">>, <<>>, 60, STANDUP, <<>>)}
      [] text = TOMORROW ->
            {Parsed(IsoDate(1), <<>>, <<>>, 60, NEW_EVENT, <<>>),
             Parsed(BadDate, <<>>, <<>>, 60, NEW_EVENT, <<>>)}
      [] text = NO ->
            {Parsed(NullDate, <<>>, <<>>, 60, NEW_EVENT, <<>>)}
      [] OTHER -> {}

\* The slots of tomorrow morning.
NineToTen == Slot(24 * 60 + 9 * 60, 24 * 60 + 10 * 60, "9:00 AM - 10:00 AM")
HalfPastNine == Slot(24 * 60 + 9 * 60 + 30, 24 * 60 + 10 * 60 + 30, "9:30 AM - 10:30 AM")

\* What the gateway suggests and what the calendar's events leave free:
\* nothing at all, a suggestion, no suggestion and two free slots.
SlotOutcomes == {<<<<>>, <<>>>>, <<<<HalfPastNine>>, <<>>>>, <<<<>>, <<NineToTen, HalfPastNine>>>>}

\* overlap: the calendar holds an event in the interval asked for;
\* calendarOk: the calendar answers.
NoScheduleOutcome ==
    [parse |-> NoJson, overlap |-> FALSE, calendarOk |-> TRUE,
     patterns |-> <<>>, slots |-> <<>>]

\* Only the calls the turn makes have an outcome to choose.
ScheduleOutcomesAmong(slotOutcomes, st, userInput, t) ==
    LET handler == ScheduleHandlerOf(st, userInput, t)
    IN IF handler \in {"activation", "collecting_date"}
       THEN {[parse |-> p, overlap |-> c[1], calendarOk |-> c[2],
              patterns |-> s[1], slots |-> s[2]] :
                p \in ParseGateway(userInput.s),
                c \in IF handler = "activation"
                      THEN {<<FALSE, TRUE>>, <<TRUE, TRUE>>, <<TRUE, FALSE>>}
                      ELSE {<<FALSE, TRUE>>},
                s \in slotOutcomes}
       ELSE {NoScheduleOutcome}

ScheduleOutcomesAt(st, userInput, t) == ScheduleOutcomesAmong(SlotOutcomes, st, userInput, t)

(***************************************************************************)
(* History of the turns of the scheduling flow.                            *)
(***************************************************************************)
\* elapsed: the age of the flow the turn reached; timed: a start was
\* computed and its interval looked up; overlap: the calendar holds an event
\* in it; calendarOk: the calendar answered.
NoScheduleTurn ==
    [op |-> "none", input |-> Undefined, handler |-> "none",
     activeBefore |-> FALSE, stageBefore |-> "init", elapsed |-> -1,
     response |-> "", created |-> <<>>, raised |-> FALSE,
     timed |-> FALSE, overlap |-> FALSE, calendarOk |-> TRUE]

\* The scheduling flow as loaded.
ScheduleIdle ==
    /\ scheduleState = ScheduleLoaded
    /\ schedTurn = NoScheduleTurn


(***************************************************************************)
(* src/services/calendar.js and src/unnamed/part_003: the enhanced         *)
(* schedule handler, the choice among its suggestions, the event creation. *)
(***************************************************************************)
PLANNING_MEETING == <<"P", "l", "a", "n", "n", "i", "n", "g", " ", "M", "e", "e", "t", "i", "n", "g">>

CREATE_MISSING_DETAILS == "Missing required event details (title, startTime, or endTime)"
CREATE_NOT_AUTHENTICATED == "Could not authenticate with Google Calendar"
CREATE_ERROR_MESSAGE == "<error.message>"

\* What createCalendarEvent returns, with the calls it made to the calendar
\* backend.
CreateResult(success, error, calls) ==
    [success |-> success, error |-> error, calls |-> calls, raised |-> FALSE]

\* part_003:8-86   createCalendarEvent(eventDetails) with details for eventDetails.  client: what
\* getCalendarClient gives ("client", "null") or that it raises ("throws");
\* inserted: events.insert succeeds.  A start or an end that is no date
\* raises in toISOString; whatever raises is caught and returned as an
\* error.
createCalendarEventAuthenticatingFirst(details, client, inserted) ==
    IF client = "throws"
    THEN CreateResult(FALSE, CREATE_ERROR_MESSAGE, <<"getCalendarClient">>)
    ELSE IF client = "null"
    THEN CreateResult(FALSE, CREATE_NOT_AUTHENTICATED, <<"getCalendarClient">>)
    ELSE IF \/ details.title = <<>>
            \/ ~details.startTime.given \/ ~details.endTime.given
    THEN CreateResult(FALSE, CREATE_MISSING_DETAILS, <<"getCalendarClient">>)
    ELSE IF ~details.startTime.valid \/ ~details.endTime.valid
    THEN CreateResult(FALSE, CREATE_ERROR_MESSAGE, <<"getCalendarClient">>)
    ELSE IF ~inserted
    THEN CreateResult(FALSE, CREATE_ERROR_MESSAGE, <<"getCalendarClient", "events.insert">>)
    ELSE CreateResult(TRUE, "", <<"getCalendarClient", "events.insert">>)
createCalendarEventResult(details, client, inserted) ==
    IF \/ details.title = <<>>
       \/ ~details.startTime.given \/ ~details.endTime.given
    THEN CreateResult(FALSE, CREATE_MISSING_DETAILS, <<>>)
    ELSE IF client = "throws"
    THEN CreateResult(FALSE, CREATE_ERROR_MESSAGE, <<"getCalendarClient">>)
    ELSE IF client = "null"
    THEN CreateResult(FALSE, CREATE_NOT_AUTHENTICATED, <<"getCalendarClient">>)
    ELSE IF ~details.startTime.valid \/ ~details.endTime.valid
    THEN CreateResult(FALSE, CREATE_ERROR_MESSAGE, <<"getCalendarClient">>)
    ELSE IF ~inserted
    THEN CreateResult(FALSE, CREATE_ERROR_MESSAGE, <<"getCalendarClient", "events.insert">>)
    ELSE CreateResult(TRUE, "", <<"getCalendarClient", "events.insert">>)

\* Whether the result says success, the backend answering or failing.
createCalendarEvent(details, backendOk) ==
    createCalendarEventResult(details, "client", backendOk).success

\* calendar.js:152-153   userInput.match(/schedule\s+#?(\d+)/i): the digits
\* of the leftmost match, <<>> without one.
ScheduleNumberAt(s, i) ==
    LET afterWord == i + Len(<<"s", "c", "h", "e", "d", "u", "l", "e">>)
        afterBlanks == SpaceRunEnd(s, afterWord) + 1
        digitsFrom == IF CharIn(s, afterBlanks, {"#"}) THEN afterBlanks + 1 ELSE afterBlanks
    IN IF /\ TextAt(toLowerCase(s), i, <<"s", "c", "h", "e", "d", "u", "l", "e">>)
          /\ afterBlanks > afterWord
          /\ DigitAt(s, digitsFrom)
       THEN SubSeq(s, digitsFrom, DigitRunEnd(s, digitsFrom))
       ELSE <<>>

scheduleNumber(s) ==
    LET starts == {i \in 1..Len(s) : ScheduleNumberAt(s, i) # <<>>}
    IN IF starts = {} THEN <<>>
       ELSE ScheduleNumberAt(s, CHOOSE i \in starts : \A j \in starts : i <= j)

\* calendar.js:148-157   the index chosen, -1 without a choice
selectedIndexFromOne(text) ==
    IF text # <<>> /\ \A i \in 1..Len(text) : text[i] \in Digits
    THEN DigitsValue(text, 1, 0)
    ELSE IF scheduleNumber(text) # <<>>
    THEN DigitsValue(scheduleNumber(text), 1, 0)
    ELSE -1
selectedIndex(text) ==
    IF text # <<>> /\ \A i \in 1..Len(text) : text[i] \in Digits
    THEN DigitsValue(text, 1, 0) - 1
    ELSE IF scheduleNumber(text) # <<>>
    THEN DigitsValue(scheduleNumber(text), 1, 0) - 1
    ELSE -1

TIME_BOOKED == "Great! I've scheduled <title> for <displayText>. It's now on your calendar."
TIME_NOT_CREATED == "Sorry, I couldn't create the event. <error>"
TIME_INVALID_OPTION == "Please select a valid option between 1 and <n>."
TIME_ERROR == "Sorry, I encountered an error while scheduling. Please try again."

\* calendar.js:144-188   handleTimeSelection(userInput, context): the
\* response and the details createCalendarEvent was called with.
handleTimeSelection(userInput, context, backendOk) ==
    IF userInput.type # "string"
    THEN [response |-> TIME_ERROR, created |-> <<>>]
    ELSE LET index == selectedIndex(userInput.s)
         IN IF index >= 0 /\ index < Len(context.suggestions)
            THEN LET selected == context.suggestions[index + 1]
                     details == [title |-> context.parsedInput.title,
                                 startTime |-> IsoTime(selected.start),
                                 endTime |-> IsoTime(selected.end),
                                 attendees |-> context.parsedInput.attendees]
                 IN [response |-> IF createCalendarEvent(details, backendOk)
                                  THEN TIME_BOOKED ELSE TIME_NOT_CREATED,
                     created |-> <<details>>]
            ELSE [response |-> TIME_INVALID_OPTION, created |-> <<>>]

CHOOSE_A_SLOT == "Based on analysis of your calendar patterns and the purpose <title>, here are optimal time slots: ..."

\* calendar.js:91-95   a title that is missing gets the default
withDefaultTitle(parsed) ==
    IF parsed.title = <<>> THEN [parsed EXCEPT !.title = PLANNING_MEETING] ELSE parsed

\* calendar.js:129, 134   the answer of the scheduling flow, a text
flowAnswer(st, userInput, t, r, parsedInput) ==
    [requiresChoice |-> FALSE, state |-> r.state, response |-> r.response,
     created |-> r.created,
     asked |-> /\ ScheduleHandlerOf(st, userInput, t) = "activation"
               /\ ~r.raised
               /\ r.state.data.date.given /\ r.state.data.time # <<>>,
     context |-> [suggestions |-> <<>>, parsedInput |-> parsedInput]]

\* calendar.js:99-135   the suggestions for the parsed request, or the
\* scheduling flow
enhancedScheduleParsed(st, userInput, parsedInput, t, o) ==
    LET targetDate == IF parsedInput.date.given THEN NewDate(parsedInput.date)
                      ELSE Instant(t)
        suggestions == analyzeEventPatterns(targetDate, o.epatterns)
    IN IF targetDate.valid /\ Len(suggestions) > 0
       THEN [requiresChoice |-> TRUE, state |-> st, response |-> CHOOSE_A_SLOT,
             created |-> <<>>, asked |-> FALSE,
             context |-> [suggestions |-> suggestions, parsedInput |-> parsedInput]]
       ELSE flowAnswer(st, userInput, t, handleScheduleIntent(st, userInput, t, o.sched),
                       parsedInput)

\* calendar.js:78-136   enhancedScheduleHandler(userInput) at time t.  The
\* parsing utilities parse as eventAnalyzer.parseDateAndTime does.  With
\* suggestions the answer is an object asking for a choice and the
\* scheduling flow is not called; without them, or when the date is no date
\* (toISOString raises), the scheduling flow takes the input.
enhancedScheduleHandler(st, userInput, t, o) ==
    enhancedScheduleParsed(st, userInput,
                           withDefaultTitle(parseDateAndTime(userInput, o.eparse)), t, o)

(***************************************************************************)
(* src/services/auth/googleAuth.js (services/chat.js): the orchestrator.   *)
(***************************************************************************)
HISTORY_LIMIT == 10     \* googleAuth.js:583

\* The entries of conversationHistory: their role and, for a system entry,
\* the marker its content holds and the marker's context.  The text of a
\* user's or an assistant's entry is left out.
NoContext == [suggestions |-> <<>>, parsedInput |-> NoJson]
UserEntry == [role |-> "user", marker |-> "none", context |-> NoContext]
AssistantEntry == [role |-> "assistant", marker |-> "none", context |-> NoContext]
SuggestionMarker(context) ==
    [role |-> "system", marker |-> "calendarSuggestions", context |-> context]
PendingMarker == [role |-> "system", marker |-> "pendingCalendarEvent", context |-> NoContext]

IsSuggestionMarker(msg) == msg.role = "system" /\ msg.marker = "calendarSuggestions"
IsPendingMarker(msg) == msg.role = "system" /\ msg.marker = "pendingCalendarEvent"
NotSuggestionMarker(msg) == ~IsSuggestionMarker(msg)
NotPendingMarker(msg) == ~IsPendingMarker(msg)

\* googleAuth.js:582-583   the user's entry is pushed, and the oldest entry
\* dropped when there are more than ten then
pushUser(history) ==
    LET pushed == Append(history, UserEntry)
    IN IF Len(pushed) > HISTORY_LIMIT THEN Tail(pushed) ELSE pushed

\* googleAuth.js:547, 555   /yes|confirm|ok|sure|schedule it/ and
\* /no|cancel|don't|dont|nope/ on the lower-cased input
ConfirmWords == {YES, <<"c", "o", "n", "f", "i", "r", "m">>, <<"o", "k">>, <<"s", "u", "r", "e">>, <<"s", "c", "h", "e", "d", "u", "l", "e", " ", "i", "t">>}
DenyWords == {NO, CANCEL, <<"d", "o", "n", "'", "t">>, <<"d", "o", "n", "t">>, <<"n", "o", "p", "e">>}
Confirms(text) == \E w \in ConfirmWords : includes(toLowerCase(text), w)
Denies(text) == \E w \in DenyWords : includes(toLowerCase(text), w)

\* googleAuth.js:534-569   checkForPendingCalendarEvents: with a pending
\* marker and a confirming or denying input the marker is removed and the
\* result of confirmCalendarEvent answered; null otherwise.
checkForPendingCalendarEvents(history, userInput) ==
    IF /\ Len(SelectSeq(history, IsPendingMarker)) > 0
       /\ userInput.type = "string"
       /\ Confirms(userInput.s) \/ Denies(userInput.s)
    THEN [answered |-> TRUE, history |-> SelectSeq(history, NotPendingMarker)]
    ELSE [answered |-> FALSE, history |-> history]

\* googleAuth.js:347-389   classifyIntent(text).  gateway: whether
\* generateContent answered, and the intent names its answer contains.
IntentOrder == <<"research_intent", "calendar_intent", "email_intent", "exit_intent">>
IntentKeywords == <<<<"r", "e", "s", "e", "a", "r", "c", "h">>, <<"s", "c", "h", "e", "d", "u", "l", "e">>, <<"e", "m", "a", "i", "l">>, <<"q", "u", "i", "t">>>>

classifyIntentKeywordsFirst(userInput, gateway) ==
    IF ~gateway.ok \/ (userInput.type # "string" /\ gateway.mentions = {})
    THEN "chat_intent"
    ELSE LET named == {i \in 1..4 : IntentOrder[i] \in gateway.mentions}
             keyed == IF userInput.type # "string" THEN {}
                      ELSE {i \in 1..4 :
                               includes(toLowerCase(userInput.s), IntentKeywords[i])}
             First(S) == CHOOSE i \in S : \A j \in S : i <= j
         IN IF keyed # {} THEN IntentOrder[First(keyed)]
            ELSE IF named # {} THEN IntentOrder[First(named)]
            ELSE "chat_intent"
classifyIntent(userInput, gateway) ==
    IF ~gateway.ok \/ (userInput.type # "string" /\ gateway.mentions = {})
    THEN "chat_intent"
    ELSE LET named == {i \in 1..4 : IntentOrder[i] \in gateway.mentions}
             keyed == {i \in 1..4 : includes(toLowerCase(userInput.s), IntentKeywords[i])}
             First(S) == CHOOSE i \in S : \A j \in S : i <= j
         IN IF named # {} THEN IntentOrder[First(named)]
            ELSE IF keyed # {} THEN IntentOrder[First(keyed)]
            ELSE "chat_intent"

\* What one turn of processInput leaves: the history, the two flows' states,
\* and
\*   route     where the input went: "store" (the user's message could not
\*             be stored), "confirmation", "selection", "mail", "intent"
\*   intent    the intent classified, "none" when classifyIntent was not called
\*   extracted extractEntities was called
\*   returned  the turn returned its response (it raised otherwise)
\*   stored    what the turn wrote to the message store
\*   created   the details createCalendarEvent was called with
\*   marked    the turn pushed a suggestion marker
\*   acted     the turn acted on a suggestion marker
\*   asked     the scheduling flow was called and looked a start up in the
\*             calendar
ChatResult(history, mail, sched, route) ==
    [history |-> history, mail |-> mail, sched |-> sched, route |-> route,
     intent |-> "none", extracted |-> FALSE, returned |-> TRUE, response |-> "",
     stored |-> <<"user">>, created |-> <<>>, marked |-> FALSE, acted |-> FALSE,
     asked |-> FALSE]

\* googleAuth.js:586-623   where the input goes before any classification
routeOfClassifyingAlways(history, mail, userInput) ==
    IF checkForPendingCalendarEvents(history, userInput).answered THEN "confirmation"
    ELSE IF Len(SelectSeq(history, IsSuggestionMarker)) > 0 THEN "selection"
    ELSE "intent"

routeOf(history, mail, userInput) ==
    IF checkForPendingCalendarEvents(history, userInput).answered THEN "confirmation"
    ELSE IF Len(SelectSeq(history, IsSuggestionMarker)) > 0 THEN "selection"
    ELSE IF isInEmailFlow(mail) THEN "mail"
    ELSE "intent"

CHAT_CONFIRMATION == "<result of confirmCalendarEvent>"
\* services/research.js is not among the sources: research(topic) is taken
\* to answer with a text.
CHAT_RESEARCH == "<result of research>"
CHAT_EXIT == "Peace out!"
CHAT_REPLY == "<reply of the gateway's chat session>"
CHAT_FAILED == "AI: Couldn't process that: <error.message>"

\* googleAuth.js:718-738   the end of a turn that did not return early: the
\* response is pushed, stored, and the conversation saved for a known user.
finishTurn(r, o) ==
    LET pushed == [r EXCEPT !.history = Append(r.history, AssistantEntry)]
    IN IF ~o.storeAssistant THEN [pushed EXCEPT !.returned = FALSE]
       ELSE IF o.user = "none"
       THEN [pushed EXCEPT !.stored = <<"user", "assistant">>]
       ELSE IF o.user = "saved"
       THEN [pushed EXCEPT !.stored = <<"user", "assistant", "conversation">>]
       ELSE [pushed EXCEPT !.stored = <<"user", "assistant">>, !.returned = FALSE]

\* googleAuth.js:641-679   the answer s of the enhanced schedule handler: a
\* choice to make leaves a suggestion marker
calendarTurn(base, history, s, o) ==
    LET after == [base EXCEPT !.sched = s.state, !.response = s.response,
                              !.created = s.created, !.asked = s.asked]
    IN IF s.requiresChoice
       THEN finishTurn([after EXCEPT
                          !.history = Append(history, SuggestionMarker(s.context)),
                          !.marked = TRUE], o)
       ELSE finishTurn(after, o)

\* googleAuth.js:681-683   the answer m of the mail flow
mailTurn(base, m, o) ==
    finishTurn([base EXCEPT !.mail = m.state, !.response = m.response], o)

\* googleAuth.js:628-717   the switch on the intent
switchIntent(base, history, mail, sched, userInput, t, o) ==
    CASE base.intent = "research_intent" ->
            finishTurn([base EXCEPT !.response = CHAT_RESEARCH], o)
      [] base.intent = "calendar_intent" ->
            calendarTurn(base, history, enhancedScheduleHandler(sched, userInput, t, o), o)
      [] base.intent = "email_intent" ->
            mailTurn(base,
                     handleEmailIntent(mail, userInput,
                                       extractEntities(userInput.s, mail, o.extract).entities,
                                       t, o.mail),
                     o)
      [] base.intent = "exit_intent" ->
            finishTurn([base EXCEPT !.response = CHAT_EXIT], o)
      [] OTHER ->
            IF o.chatOk
            THEN [base EXCEPT !.history = Append(history, AssistantEntry),
                              !.response = CHAT_REPLY]
            ELSE finishTurn([base EXCEPT !.response = CHAT_FAILED], o)

\* googleAuth.js:625-716   the turn of an input that is classified
dispatchIntent(history, mail, sched, userInput, t, o) ==
    switchIntent([ChatResult(history, mail, sched, "intent")
                    EXCEPT !.intent = classifyIntent(userInput, o.classify),
                           !.extracted = TRUE],
                 history, mail, sched, userInput, t, o)

\* googleAuth.js:606-608   the suggestion markers are filtered out
removeSuggestionMarkersKeepingThem(history) == history

removeSuggestionMarkers(history) == SelectSeq(history, NotSuggestionMarker)

\* googleAuth.js:597-611   the choice among the suggestions of the most
\* recent marker: r is what handleTimeSelection answered
selectionTurn(history, mail, sched, r) ==
    [ChatResult(Append(removeSuggestionMarkers(history), AssistantEntry),
                mail, sched, "selection")
        EXCEPT !.response = r.response, !.created = r.created, !.acted = TRUE]

\* googleAuth.js:618-622   the active mail flow's answer m
mailFlowTurn(history, sched, m) ==
    [ChatResult(Append(history, AssistantEntry), m.state, sched, "mail")
        EXCEPT !.response = m.response]

\* The context of the most recent suggestion marker.
lastSuggestions(pending) == pending[Len(pending)].context

\* googleAuth.js:586-738   the turn once the user's entry is in the history
routeInput(history, route, mail, sched, userInput, t, o) ==
    CASE route = "confirmation" ->
            [ChatResult(Append(checkForPendingCalendarEvents(history, userInput).history,
                               AssistantEntry),
                        mail, sched, route)
                EXCEPT !.response = CHAT_CONFIRMATION]
      [] route = "selection" ->
            selectionTurn(history, mail, sched,
                          handleTimeSelection(userInput,
                                              lastSuggestions(SelectSeq(history, IsSuggestionMarker)),
                                              o.createOk))
      [] route = "mail" ->
            mailFlowTurn(history, sched,
                         handleEmailIntent(mail, userInput, EmptyEntities, t, o.mail))
      [] OTHER -> dispatchIntent(history, mail, sched, userInput, t, o)

\* The turn with the user's entry pushed.
routePushed(history, mail, sched, userInput, t, o) ==
    routeInput(history, routeOf(history, mail, userInput), mail, sched, userInput, t, o)

\* googleAuth.js:572-740   processInput(userInput, sessionId, userId) at
\* time t, with the outcomes o of the external calls it makes.
processInput(history0, mail, sched, userInput, t, o) ==
    IF ~o.storeUser
    THEN [ChatResult(history0, mail, sched, "store")
            EXCEPT !.returned = FALSE, !.stored = <<>>]
    ELSE routePushed(pushUser(history0), mail, sched, userInput, t, o)

(***************************************************************************)
(* The inputs of the orchestrator and the outcomes of its calls.           *)
(***************************************************************************)
MaxHistory == 10        \* turns are taken while the history is no longer

\* What the gateway may answer to the classification prompt for a text:
\* nothing that names an intent, an error, or intent names.
ClassifyGateway(text) ==
    {[ok |-> TRUE, mentions |-> {}], [ok |-> FALSE, mentions |-> {}]} \cup
    {[ok |-> TRUE, mentions |-> m] :
        m \in CASE text = STANDUP_REQUEST -> {{"calendar_intent"}}
                [] text = ONE -> {{"calendar_intent"}, {"exit_intent"}}
                [] text = MAIL_REQUEST -> {{"research_intent", "email_intent"}}
                [] OTHER -> {{"calendar_intent"}}}

\* What the gateway may answer to the parsing prompt in a turn of the
\* orchestrator.
ChatParseGateway(text) ==
    {NoJson} \cup
    IF text = STANDUP_REQUEST
    THEN {Parsed(IsoDate(1), <<"0", "9", ":", "0", "0">>, <<>>, 60, STANDUP, <<>>)} ELSE {}

\* What the calls of the scheduling flow give in a turn of the orchestrator
\* that reaches it.
ChatScheduleOutcomes(st, userInput, t) ==
    LET handler == ScheduleHandlerOf(st, userInput, t)
    IN IF handler \in {"activation", "collecting_date"}
       THEN {[parse |-> p, overlap |-> c, calendarOk |-> TRUE,
              patterns |-> <<>>, slots |-> <<NineToTen, HalfPastNine>>] :
                p \in ChatParseGateway(userInput.s),
                c \in IF handler = "activation" THEN BOOLEAN ELSE {FALSE}}
       ELSE {NoScheduleOutcome}

\* storeUser, storeAssistant: Message.create succeeds; user: no userId is
\* given, or one is and saveConversation succeeds or fails; createOk: the
\* calendar creates the event chosen; chatOk: the gateway's chat answers.
NoChatOutcome ==
    [storeUser |-> TRUE, createOk |-> TRUE, mail |-> NoOutcome,
     classify |-> [ok |-> TRUE, mentions |-> {}],
     extract |-> [kind |-> "json", to |-> Str(Address)],
     eparse |-> NoJson, epatterns |-> <<>>, sched |-> NoScheduleOutcome,
     chatOk |-> TRUE, storeAssistant |-> TRUE, user |-> "none"]

\* The ways a turn that did not return early may end.
TurnEnds(o) ==
    {[o EXCEPT !.user = u] : u \in {"none", "saved", "save failed"}}
    \cup {[o EXCEPT !.storeAssistant = FALSE]}

\* Only the calls the turn makes have an outcome to choose.
IntentOutcomesAmong(suggested, sched, userInput, t, classify) ==
    LET intent == classifyIntent(userInput, classify)
        o == [NoChatOutcome EXCEPT !.classify = classify]
    IN CASE intent = "calendar_intent" ->
                UNION {TurnEnds([e EXCEPT !.sched = f]) :
                        e \in {[o EXCEPT !.eparse = p, !.epatterns = s] :
                                    p \in ChatParseGateway(userInput.s),
                                    s \in suggested},
                        f \in ChatScheduleOutcomes(sched, userInput, t)}
         [] intent = "chat_intent" ->
                {[o EXCEPT !.chatOk = TRUE]} \cup TurnEnds([o EXCEPT !.chatOk = FALSE])
         [] OTHER -> TurnEnds(o)

ChatOutcomesAmong(suggested, history, mail, sched, userInput, t) ==
    LET route == routeOf(pushUser(history), mail, userInput)
    IN {[NoChatOutcome EXCEPT !.storeUser = FALSE]} \cup
       CASE route = "selection" -> {[NoChatOutcome EXCEPT !.createOk = b] : b \in BOOLEAN}
         [] route = "intent" ->
                UNION {IntentOutcomesAmong(suggested, sched, userInput, t, c) :
                        c \in ClassifyGateway(userInput.s)}
         [] OTHER -> {NoChatOutcome}

\* The gateway suggests no slot or one.
ChatOutcomesAt(history, mail, sched, userInput, t) ==
    ChatOutcomesAmong({<<>>, <<HalfPastNine>>}, history, mail, sched, userInput, t)

(***************************************************************************)
(* History of the turns of the orchestrator.                               *)
(***************************************************************************)
\* The fields of a turn's result, and overlap: the calendar held an event in
\* the interval the turn asked it about; unread: the latest turn that stored
\* its message pushed a marker; createOk: createCalendarEvent was called and
\* returned success.
NoChatTurn ==
    [input |-> Undefined, route |-> "none", intent |-> "none", extracted |-> FALSE,
     returned |-> FALSE, response |-> "", stored |-> <<>>, created |-> <<>>,
     marked |-> FALSE, acted |-> FALSE, overlap |-> FALSE, unread |-> FALSE,
     createOk |-> FALSE]

\* The orchestrator as loaded: googleAuth.js:344, an empty history.
ChatIdle ==
    /\ conversationHistory = <<>>
    /\ chatTurn = NoChatTurn


(***************************************************************************)
(* part_004:268-279 (POST /chat) with googleAuth.js:572-740 and            *)
(* part_002:801-1006: requests in flight.  The route handler is async:     *)
(* a request runs until it awaits, and the steps of another request may    *)
(* run before it is resumed.  emailState and conversationHistory are       *)
(* module variables, one for the process whatever sessionId a request has. *)
(***************************************************************************)
Requests == 1..2
SessionIds == {"A", "B"}
MaxArrivals == 3
SAY_HI == <<"s", "a", "y", " ", "h", "i">>
RequestTexts == {MAIL_REQUEST, YES, SAY_HI}

\* part_004:271   req.body.sessionId || 'default'
NoRequest ==
    [pc |-> "idle", session |-> "default", input |-> Undefined, route |-> "none",
     held |-> 0]

\* The awaits inside handleEmailIntent and proceedToEmailGeneration:
\* part_002:865 analyzeContextCompleteness, 985 analyzeEmailContext,
\* 992 generateHumanizedEmail, 894 sendEmail.
InMailHandler == {"analyzing", "styling", "drafting", "sending"}

\* What the classification prompt and the extraction prompt are answered
\* with while requests are in flight.
RequestClassifyGateway == {[ok |-> TRUE, mentions |-> {}], [ok |-> FALSE, mentions |-> {}]}
RequestExtractionGateway ==
    {g \in ExtractionGateway : g.kind = "error" \/ g.to \in {Str(MISSING), Str(Address)}}

\* part_002:857-865, 882-888, 890-894   the steps of handleEmailIntent that
\* reach an await
awaitOf(st, userInput, t) ==
    IF ~st.active \/ TimedOut(st, t) \/ userInput.type # "string" THEN "none"
    ELSE CASE st.stage = "collecting_purpose" -> "analyzing"
           [] st.stage = "collecting_context" -> "styling"
           [] st.stage = "confirming" /\ includes(toLowerCase(userInput.s), YES) -> "sending"
           [] OTHER -> "none"

\* part_002:859-860, 884-885   what is written before the await
beforeAwait(st, userInput) ==
    CASE st.stage = "collecting_purpose" ->
            [st EXCEPT !.data.purpose = trim(userInput.s), !.stage = "checking_context"]
      [] st.stage = "collecting_context" ->
            [st EXCEPT !.data.purpose = @ \o <<" ">> \o trim(userInput.s),
                       !.stage = "generating"]
      [] OTHER -> st

\* emailState = {...} binds the variable to a new object (part_002:834, 897,
\* 926, 941, 952); every other write changes the object in place, and a
\* reset flow is not active.
Rebinds(before, after) == before.active /\ after = ResetState

\* googleAuth.js:620-621 returns after the push; 720-735 pushes, then awaits
\* Message.create and saveConversation.
pcAfterAnswer(route) == IF route = "mail" THEN "idle" ELSE "answering"

\* The last step taken by a request.  touched: the step read or wrote
\* emailState.
NoStep == [request |-> 0, session |-> "none", step |-> "none", touched |-> FALSE,
           response |-> ""]

\* The server as started: no request received.
RequestsIdle ==
    /\ requests = [p \in Requests |-> NoRequest]
    /\ binding = 0
    /\ flowSession = "none"
    /\ arrivals = 0
    /\ lastStep = NoStep

(***************************************************************************)
(* One function called with given arguments.                               *)
(***************************************************************************)
NoResult == [done |-> FALSE, value |-> <<>>]
ResultOf(value) == [done |-> TRUE, value |-> value]

NoCall ==
    /\ callArgs = <<>>
    /\ callResult = NoResult

(***************************************************************************)
(* History of the calls, for the statements about them.                    *)
(***************************************************************************)
NoEntry(k) == [key |-> k, present |-> FALSE, value |-> NULL, t |-> 0, ttl |-> 0]

\* The record of set(key, value, ttl) at time t: what a later get must see.
StoredAfterSet(h, key, value, ttl, t, r) ==
    IF h.key = "" THEN h
    ELSE IF r.result /\ key = h.key
         THEN [key |-> key, present |-> TRUE, value |-> value, t |-> t, ttl |-> ttl]
         ELSE IF r.evicted = h.key THEN NoEntry(h.key) ELSE h

RECURSIVE StoredAfterEach(_, _, _, _, _, _)
StoredAfterEach(h, m, entries, i, ttl, t) ==
    IF i > Len(entries) THEN h
    ELSE LET r == set(m, entries[i][1], entries[i][2], ttl, t)
         IN StoredAfterEach(StoredAfterSet(h, entries[i][1], entries[i][2], ttl, t, r),
                            r.store, entries, i + 1, ttl, t)

\* deleted: the call was a get/has that dropped the entry it looked at.
Call(op, key, kind, result, evicted) ==
    [op |-> op, key |-> key, kind |-> kind, result |-> result, evicted |-> evicted,
     deleted |-> FALSE]

\* The cache without sweeps takes the same call; it remembers whether it ever
\* evicted an entry at capacity.
LazyAfter(r, evicted) ==
    IF lazyLast.on
    THEN /\ lazy' = r.store
         /\ lazyLast' = [on |-> TRUE, result |-> r.result,
                         evicted |-> lazyLast.evicted \/ evicted,
                         deleted |-> Len(r.store) < Len(lazy)]
    ELSE UNCHANGED <<lazy, lazyLast>>

(***************************************************************************)
(* The cache's operations as actions.                                      *)
(***************************************************************************)
\* The module as loaded and initialize()d.
CacheLoaded ==
    /\ cache = <<>>
    /\ now = 0
    /\ last = Call("init", "", "none", TRUE, {})
    /\ stored = NoEntry("")
    /\ lazy = <<>>
    /\ lazyLast = [on |-> FALSE, result |-> TRUE, evicted |-> FALSE, deleted |-> FALSE]
    /\ MailIdle
    /\ ScheduleIdle
    /\ ChatIdle
    /\ RequestsIdle
    /\ options = ConfiguredOptions

\* Nothing called yet.
CacheInit ==
    /\ CacheLoaded
    /\ NoCall

\* The same, with the history of one key kept.
ExpiryInit ==
    /\ cache = <<>>
    /\ now = 0
    /\ last = Call("init", "", "none", TRUE, {})
    /\ stored \in {NoEntry(k) : k \in Keys \ {""}}
    /\ lazy = <<>>
    /\ lazyLast = [on |-> FALSE, result |-> TRUE, evicted |-> FALSE, deleted |-> FALSE]
    /\ MailIdle
    /\ ScheduleIdle
    /\ ChatIdle
    /\ RequestsIdle
    /\ NoCall
    /\ options = ConfiguredOptions

\* The same, run side by side with a cache that is never swept.
SweepInit ==
    /\ cache = <<>>
    /\ now = 0
    /\ last = Call("init", "", "none", TRUE, {})
    /\ stored = NoEntry("")
    /\ lazy = <<>>
    /\ lazyLast = [on |-> TRUE, result |-> TRUE, evicted |-> FALSE, deleted |-> FALSE]
    /\ MailIdle
    /\ ScheduleIdle
    /\ ChatIdle
    /\ RequestsIdle
    /\ NoCall
    /\ options = ConfiguredOptions

Set ==
    \E key \in Keys, value \in Values, ttl \in TTLs :
        LET r == set(cache, key, value, ttl, now)
            l == set(lazy, key, value, ttl, now)
        IN /\ cache' = r.store
           /\ last' = Call("set", key, "none", r.result,
                           IF r.evicted = NULL THEN {} ELSE {r.evicted})
           /\ stored' = StoredAfterSet(stored, key, value, ttl, now, r)
           /\ LazyAfter(l, l.evicted # NULL)
           /\ UNCHANGED <<now, mailVars, scheduleVars, chatVars, requestVars, callVars, optionVars>>

Get ==
    \E key \in Keys :
        LET r == get(cache, key, now)
        IN /\ cache' = r.store
           /\ last' = [Call("get", key, "none", r.result, {}) EXCEPT !.deleted = r.store # cache]
           /\ LazyAfter(get(lazy, key, now), FALSE)
           /\ UNCHANGED <<now, stored, mailVars, scheduleVars, chatVars, requestVars, callVars, optionVars>>

Has ==
    \E key \in Keys :
        LET r == has(cache, key, now)
        IN /\ cache' = r.store
           /\ last' = [Call("has", key, "none", r.result, {}) EXCEPT !.deleted = r.store # cache]
           /\ LazyAfter(has(lazy, key, now), FALSE)
           /\ UNCHANGED <<now, stored, mailVars, scheduleVars, chatVars, requestVars, callVars, optionVars>>

Remove ==
    \E key \in Keys :
        LET r == remove(cache, key)
        IN /\ cache' = r.store
           /\ last' = Call("remove", key, "none", r.result, {})
           /\ stored' = IF key = stored.key THEN NoEntry(key) ELSE stored
           /\ LazyAfter(remove(lazy, key), FALSE)
           /\ UNCHANGED <<now, mailVars, scheduleVars, chatVars, requestVars, callVars, optionVars>>

Clear ==
    LET r == clear(cache)
    IN /\ cache' = r.store
       /\ last' = Call("clear", "", "none", r.result, {})
       /\ stored' = NoEntry(stored.key)
       /\ LazyAfter(clear(lazy), FALSE)
       /\ UNCHANGED <<now, mailVars, scheduleVars, chatVars, requestVars, callVars, optionVars>>

\* part_000:33-35   the interval timer armed by initialize(); the cache
\* without sweeps does not take this step.
Cleanup ==
    LET r == cleanup(cache, now)
    IN /\ cache' = r.store
       /\ last' = Call("cleanup", "", "none", r.result, {})
       /\ UNCHANGED <<now, stored, lazy, lazyLast, mailVars, scheduleVars, chatVars, requestVars, callVars, optionVars>>

SetMultiple ==
    \E items \in SetPayloads, ttl \in TTLs :
        LET r == setMultiple(cache, items, ttl, now)
            l == setMultiple(lazy, items, ttl, now)
        IN /\ cache' = r.store
           /\ last' = Call("setMultiple", "", items.kind, r.result, r.evicted)
           /\ stored' = IF items.kind = "object"
                         THEN StoredAfterEach(stored, cache, items.entries, 1, ttl, now)
                         ELSE stored
           /\ LazyAfter(l, l.evicted # {})
           /\ UNCHANGED <<now, mailVars, scheduleVars, chatVars, requestVars, callVars, optionVars>>

GetMultiple ==
    \E keys \in KeyPayloads :
        LET r == getMultiple(cache, keys, now)
        IN /\ cache' = r.store
           /\ last' = Call("getMultiple", "", keys.kind, r.result, {})
           /\ LazyAfter(getMultiple(lazy, keys, now), FALSE)
           /\ UNCHANGED <<now, stored, mailVars, scheduleVars, chatVars, requestVars, callVars, optionVars>>

RemoveMultiple ==
    \E keys \in KeyPayloads :
        LET r == removeMultiple(cache, keys)
        IN /\ cache' = r.store
           /\ last' = Call("removeMultiple", "", keys.kind, r.result, {})
           /\ stored' = IF keys.kind = "array"
                            /\ \E i \in 1..Len(keys.entries) : keys.entries[i] = stored.key
                         THEN NoEntry(stored.key) ELSE stored
           /\ LazyAfter(removeMultiple(lazy, keys), FALSE)
           /\ UNCHANGED <<now, mailVars, scheduleVars, chatVars, requestVars, callVars, optionVars>>

\* Time passes between calls.
Tick ==
    /\ now < MaxNow
    /\ now' = now + 1
    /\ last' = Call("tick", "", "none", TRUE, {})
    /\ lazyLast' = [lazyLast EXCEPT !.result = TRUE, !.deleted = FALSE]
    /\ UNCHANGED <<cache, stored, lazy, mailVars, scheduleVars, chatVars, requestVars, callVars, optionVars>>

CacheNext ==
    \/ Set \/ Get \/ Has \/ Remove \/ Clear \/ Cleanup
    \/ SetMultiple \/ GetMultiple \/ RemoveMultiple \/ Tick

SpecCache == CacheInit /\ [][CacheNext]_vars

\* The single-key calls, the sweep and the clock, with the history of one key.
ExpiryNext == Set \/ Get \/ Has \/ Remove \/ Clear \/ Cleanup \/ Tick

SpecExpiry == ExpiryInit /\ [][ExpiryNext]_vars

\* Sequences of set/get/has/remove calls with sweeps interleaved at any point.
SweepNext == Set \/ Get \/ Has \/ Remove \/ Cleanup \/ Tick

SpecSweep == SweepInit /\ [][SweepNext]_vars

(***************************************************************************)
(* Statements about the cache.                                             *)
(***************************************************************************)

\* C1 (cache expiry): for the key k whose latest set(k, v, ttl) happened at
\* time t and was not removed, cleared, evicted or overwritten since, a get(k)
\* or has(k) at now > t + ttl returns null / false and leaves no entry for k
\* in the Map, sweep or no sweep; at now <= t + ttl it returns v / true.
C1_CacheExpiry ==
    (last.op \in {"get", "has"} /\ last.key = stored.key /\ stored.present) =>
        IF now > stored.t + stored.ttl
        THEN /\ last.op = "get" => last.result = NULL
             /\ last.op = "has" => last.result = FALSE
             /\ ~MapHas(cache, last.key)
        ELSE /\ last.op = "get" => last.result = stored.value
             /\ last.op = "has" => last.result = TRUE
             /\ MapHas(cache, last.key)

\* A get that found the expired entry still in the Map and dropped it itself.
C1_Witness ==
    /\ last.op = "get" /\ last.key = stored.key /\ stored.present
    /\ now > stored.t + stored.ttl
    /\ last.deleted

\* C2 (cache eviction): a successful set(k, v) with k not in the Map while
\* size() >= maxSize removes exactly one entry, one whose timestamp is the
\* smallest of all entries, and inserts k; any other successful set removes
\* nothing; the entries that stay are untouched.
C2_CacheEviction ==
    [][ (last'.op = "set" /\ last'.result = TRUE) =>
            LET k == last'.key
                atCapacity == size(cache) >= options.maxSize /\ ~MapHas(cache, k)
                gone == {i \in 1..Len(cache) : ~MapHas(cache', cache[i].key)}
            IN /\ atCapacity =>
                    /\ Cardinality(gone) = 1
                    /\ \A i \in gone, j \in 1..Len(cache) :
                            cache[i].timestamp <= cache[j].timestamp
               /\ ~atCapacity => gone = {}
               /\ MapHas(cache', k)
               /\ \A i \in (1..Len(cache)) \ gone :
                      cache[i].key # k => MapGet(cache', cache[i].key) = cache[i]
      ]_vars

\* A set at capacity that evicted one entry and kept one created before it ran.
C2_Witness ==
    /\ last.op = "set" /\ last.evicted # {}
    /\ \E i \in 1..Len(cache) : cache[i].key # last.key /\ cache[i].timestamp < now

\* C3 (total operations): set/get/has with the empty key and the batch calls
\* with a payload of the wrong type return false / null / false / false / {} /
\* false and leave the Map as it was.
C3_CacheTotal ==
    [][ /\ (last'.op = "set" /\ last'.key = "") => (last'.result = FALSE /\ cache' = cache)
        /\ (last'.op = "get" /\ last'.key = "") => (last'.result = NULL /\ cache' = cache)
        /\ (last'.op = "has" /\ last'.key = "") => (last'.result = FALSE /\ cache' = cache)
        /\ (last'.op = "setMultiple" /\ last'.kind # "object") =>
                (last'.result = FALSE /\ cache' = cache)
        /\ (last'.op = "getMultiple" /\ last'.kind # "array") =>
                (last'.result = {} /\ cache' = cache)
        /\ (last'.op = "removeMultiple" /\ last'.kind # "array") =>
                (last'.result = FALSE /\ cache' = cache)
      ]_vars

\* set("") refused on a cache that holds entries.
C3_Witness ==
    /\ last.op = "set" /\ last.key = "" /\ last.result = FALSE
    /\ size(cache) > 0

\* C4 as stated (sweep equivalence): every get and has returns the same value
\* on the swept cache and on the cache that is never swept.
C4_SweepEquivalent ==
    (lazyLast.on /\ last.op \in {"get", "has"}) => last.result = lazyLast.result

\* C4 as amended: the same, as long as the never-swept cache has not evicted
\* an entry at capacity.
C4_SweepEquivalentBelowCapacity ==
    (lazyLast.on /\ last.op \in {"get", "has"} /\ ~lazyLast.evicted) =>
        last.result = lazyLast.result

\* A get of a key the sweep had already removed, which the never-swept cache
\* drops only now.
C4_Witness ==
    /\ lazyLast.on /\ last.op = "get" /\ ~lazyLast.evicted
    /\ ~last.deleted /\ lazyLast.deleted
    /\ size(cache) > 0

(***************************************************************************)
(* The mail flow's operations as actions.                                  *)
(***************************************************************************)
\* The cache plays no part in the mail flow.
MailInit ==
    /\ MailIdle
    /\ ScheduleIdle
    /\ ChatIdle
    /\ RequestsIdle
    /\ NoCall
    /\ options = ConfiguredOptions
    /\ CacheInit

\* One turn of the conversation reaching handleEmailIntent.
HandleEmailIntent ==
    /\ \E userInput \in UserInputs :
        \E entities \in EntitiesFor(emailState) :
        \E o \in OutcomesAt(emailState, clock) :
            \E r \in {handleEmailIntent(emailState, userInput, entities, clock, o)} :
            LET handler == HandlerOf(emailState, clock)
            IN /\ emailState' = r.state
               /\ turn' = [op |-> "handleEmailIntent", input |-> userInput,
                           entities |-> entities, calls |-> 0,
                           activeBefore |-> emailState.active,
                           stageBefore |-> emailState.stage,
                           elapsed |-> IF emailState.active
                                       THEN clock - emailState.data.startTime.n ELSE -1,
                           handler |-> handler,
                           response |-> r.response, sent |-> r.sent, raised |-> r.raised,
                           generation |-> r.generation,
                           sendsInFlow |-> IF emailState.active
                                           THEN turn.sendsInFlow + r.sent ELSE 0,
                           no |-> IsNo(userInput),
                           afterNo |-> turn.no /\ turn.handler = "confirming",
                           draftCurrent |->
                                \/ r.generation = "succeeded"
                                \/ /\ turn.draftCurrent
                                   /\ r.state.active /\ emailState.active
                                   /\ r.state.data.to = emailState.data.to
                                   /\ r.state.data.purpose = emailState.data.purpose]
    /\ UNCHANGED <<clock, cacheVars, scheduleVars, chatVars, requestVars, callVars, optionVars>>

\* A call of extractEntities(text, 'email_intent'): processInput makes it
\* after awaiting classifyIntent, so another turn may have started the flow.
ExtractEntities ==
    /\ \E text \in Texts, g \in ExtractionGateway :
            \E r \in {extractEntities(text, emailState, g)} :
               turn' = [NoTurn EXCEPT !.op = "extractEntities",
                                      !.entities = r.entities, !.calls = r.calls,
                                      !.activeBefore = emailState.active,
                                      !.stageBefore = emailState.stage,
                                      !.sendsInFlow = turn.sendsInFlow,
                                      !.draftCurrent = turn.draftCurrent]
    /\ UNCHANGED <<emailState, clock, cacheVars, scheduleVars, chatVars, requestVars, callVars, optionVars>>

\* Time passes between turns.
MailTick ==
    /\ \E d \in TickMinutes :
        /\ clock + d <= MaxClock
        /\ clock' = clock + d
    /\ UNCHANGED <<emailState, turn, cacheVars, scheduleVars, chatVars, requestVars, callVars, optionVars>>

MailNext == HandleEmailIntent \/ ExtractEntities \/ MailTick

SpecMail == MailInit /\ [][MailNext]_vars

(***************************************************************************)
(* Statements about the mail flow.                                         *)
(***************************************************************************)
\* C5 (mail send, as stated): sendEmail is called only at stage confirming on
\* an unambiguous yes, at most once per activation of the flow, and never on
\* the first or the second of two consecutive "no" answers that start at
\* confirming.
C5_SendOnlyOnUnambiguousYes ==
    turn.op = "handleEmailIntent" =>
        /\ turn.sent > 0 =>
                /\ turn.activeBefore /\ turn.stageBefore = "confirming"
                /\ UnambiguousYes(turn.input)
        /\ turn.sendsInFlow <= 1
        /\ (turn.no /\ (turn.stageBefore = "confirming" \/ turn.afterNo)) => turn.sent = 0

\* The turn that sends on an answer that says no: "not yesterday, cancel".
C5_Witness ==
    /\ turn.op = "handleEmailIntent"
    /\ turn.stageBefore = "confirming"
    /\ turn.sent = 1
    /\ ~UnambiguousYes(turn.input)
    /\ includes(toLowerCase(turn.input.s), NO)
    /\ emailState = ResetState

\* The entities name a recipient.
HasRecipient(entities) ==
    /\ entities.to.type = "string"
    /\ entities.to.s # <<>>
    /\ entities.to.s # MISSING

\* C6 (mail flow start): a call of handleEmailIntent on an inactive flow
\* leaves it active; with a recipient in the entities the stage is
\* collecting_purpose, the recipient is stored and the answer asks for the
\* purpose, not for the recipient; without one the stage is
\* collecting_recipient.
C6_FlowStart ==
    (turn.op = "handleEmailIntent" /\ ~turn.activeBefore) =>
        /\ emailState.active
        /\ IF HasRecipient(turn.entities)
           THEN /\ emailState.stage = "collecting_purpose"
                /\ emailState.data.to = turn.entities.to
                /\ turn.response = MSG_ASK_PURPOSE_FOR
           ELSE emailState.stage = "collecting_recipient"

C6_Witness ==
    /\ turn.op = "handleEmailIntent" /\ ~turn.activeBefore
    /\ HasRecipient(turn.entities)
    /\ emailState.active /\ emailState.stage = "collecting_purpose"
    /\ emailState.data.to = Str(Address)

\* C7 (mail flow timeout): a turn that reaches an active flow more than 15
\* minutes after the flow started resets it to inactive/init with cleared
\* data whatever the stage, answers with the timeout message, hands the input
\* to no stage handler (nothing raised, nothing generated) and sends no mail;
\* a turn within the 15 minutes is not answered with the timeout message.
C7_FlowTimeout ==
    (turn.op = "handleEmailIntent" /\ turn.activeBefore) =>
        IF turn.elapsed > EMAIL_TIMEOUT_MINUTES
        THEN /\ emailState = ResetState
             /\ turn.response = MSG_TIMEOUT
             /\ turn.sent = 0 /\ ~turn.raised /\ turn.generation = "none"
        ELSE turn.response # MSG_TIMEOUT

\* A flow at stage confirming, reached 16 minutes after it started by the
\* answer that would have sent the mail.
C7_Witness ==
    /\ turn.op = "handleEmailIntent" /\ turn.activeBefore
    /\ turn.stageBefore = "confirming"
    /\ turn.elapsed > EMAIL_TIMEOUT_MINUTES
    /\ UnambiguousYes(turn.input)
    /\ turn.response = MSG_TIMEOUT
    /\ emailState = ResetState

\* C8 (mail flow error reset): a turn in which handleEmailIntent raises leaves
\* the flow inactive at stage init with cleared data and answers with the
\* recovery message; and the flow is never left active at a stage that has
\* no handler.
C8_ErrorReset ==
    /\ (turn.op = "handleEmailIntent" /\ turn.raised) =>
            /\ emailState = ResetState
            /\ turn.response = MSG_UNEXPECTED
    /\ emailState.active => emailState.stage \in HandledStages

\* A message that is no string, arriving while the flow waits for context.
C8_Witness ==
    /\ turn.op = "handleEmailIntent" /\ turn.raised
    /\ turn.stageBefore = "collecting_context"
    /\ turn.input = Num(42)
    /\ emailState = ResetState

C10_ExtractionSuppressed ==
    [][(turn'.op = "extractEntities" /\ emailState.active) =>
            /\ turn'.entities = EmptyEntities
            /\ turn'.calls = 0
            /\ emailState' = emailState]_vars

C10_Witness ==
    /\ turn.op = "extractEntities"
    /\ turn.activeBefore /\ emailState.active
    /\ emailState.stage = "confirming"
    /\ turn.entities = EmptyEntities /\ turn.calls = 0

(***************************************************************************)
(* The scheduling flow's operation as an action.                           *)
(***************************************************************************)
ScheduleInit ==
    /\ ScheduleIdle
    /\ CacheInit

\* One call of schedulingFlow.handleScheduleIntent with userInput, its
\* external calls answering as o says.
ScheduleTurn(userInput, o) ==
    \E r \in {handleScheduleIntent(scheduleState, userInput, clock, o)} :
        LET handler == ScheduleHandlerOf(scheduleState, userInput, clock)
            timed == /\ handler = "activation" /\ ~r.raised
                     /\ r.state.data.date.given /\ r.state.data.time # <<>>
        IN /\ scheduleState' = r.state
           /\ schedTurn' = [op |-> "handleScheduleIntent", input |-> userInput,
                            handler |-> handler,
                            activeBefore |-> scheduleState.active,
                            stageBefore |-> scheduleState.stage,
                            elapsed |-> IF scheduleState.active
                                        THEN clock - scheduleState.data.startTimestamp
                                        ELSE -1,
                            response |-> r.response, created |-> r.created,
                            raised |-> r.raised, timed |-> timed,
                            overlap |-> timed /\ o.overlap,
                            calendarOk |-> timed => o.calendarOk]

HandleScheduleIntent ==
    /\ \E userInput \in ScheduleInputs :
        \E o \in ScheduleOutcomesAt(scheduleState, userInput, clock) :
            ScheduleTurn(userInput, o)
    /\ UNCHANGED <<cacheVars, mailVars, chatVars, requestVars, callVars, optionVars>>

\* A turn of the scheduling flow, or time passing between turns.
ScheduleNext == HandleScheduleIntent \/ MailTick

SpecSchedule == ScheduleInit /\ [][ScheduleNext]_vars


(***************************************************************************)
(* Statements about the scheduling flow.                                   *)
(***************************************************************************)
\* C12 (activation without a time): when the input that starts a flow
\* resolves to a date and no time, the stage after the turn is
\* suggesting_time; when it resolves to neither, the stage is collecting_date
\* and the user is asked for a date.
C12_ActivationWithoutTime ==
    (/\ schedTurn.handler = "activation" /\ ~schedTurn.raised
     /\ scheduleState.data.time = <<>>) =>
        IF scheduleState.data.date.given
        THEN scheduleState.stage = "suggesting_time"
        ELSE /\ scheduleState.stage = "collecting_date"
             /\ schedTurn.response = SCHED_ASK_DATE

\* "tomorrow" started a flow that now offers slots of tomorrow.
C12_Witness ==
    /\ schedTurn.handler = "activation" /\ schedTurn.input = Str(TOMORROW)
    /\ scheduleState.data.date = IsoDate(1) /\ scheduleState.data.time = <<>>
    /\ scheduleState.stage = "suggesting_time"
    /\ Len(scheduleState.data.suggestedTimes) > 0

\* The start the date and the time of the flow's data stand for.
LiteralStart(d) ==
    d.date.day * 24 * 60 + SplitTime(d.time).hours * 60 + SplitTime(d.time).minutes

\* C13 as stated (activation with a date and a time): start and end are the
\* literal time on the parsed date and that plus the duration; the stage
\* after the turn is suggesting_time if the start is past or an event of the
\* calendar lies in the interval, and confirming otherwise.
C13_ActivationWithDateAndTime ==
    schedTurn.timed =>
        LET d == scheduleState.data
            past == LiteralStart(d) < d.startTimestamp
        IN /\ d.startTime = IsoTime(LiteralStart(d))
           /\ d.endTime = IsoTime(LiteralStart(d) + d.duration)
           /\ scheduleState.stage = IF past \/ schedTurn.overlap
                                    THEN "suggesting_time" ELSE "confirming"

\* C13 as amended: the same, for the events the calendar lookup returned; a
\* lookup that fails returns none.
C13_ActivationWithDateAndTimeWhenCalendarAnswers ==
    schedTurn.timed =>
        LET d == scheduleState.data
            past == LiteralStart(d) < d.startTimestamp
        IN /\ d.startTime = IsoTime(LiteralStart(d))
           /\ d.endTime = IsoTime(LiteralStart(d) + d.duration)
           /\ scheduleState.stage = IF past \/ (schedTurn.overlap /\ schedTurn.calendarOk)
                                    THEN "suggesting_time" ELSE "confirming"

\* A start that had passed when the flow was started, and was not confirmed.
C13_Witness ==
    /\ schedTurn.timed /\ schedTurn.calendarOk /\ ~schedTurn.overlap
    /\ LiteralStart(scheduleState.data) < scheduleState.data.startTimestamp
    /\ scheduleState.stage = "suggesting_time"

\* C14 (confirmation): at stage confirming, "yes" in any case calls
\* createCalendarEvent once with the stored title, start, end and attendees
\* and deactivates the flow; "no" deactivates it and creates nothing; any
\* other input leaves the flow as it is, creates nothing and asks again.
C14_Confirming ==
    [][(schedTurn' # schedTurn /\ schedTurn'.handler = "confirming") =>
        LET d == scheduleState.data
            answer == toLowerCase(schedTurn'.input.s)
        IN CASE answer = YES ->
                    /\ schedTurn'.created =
                            <<[title |-> d.title, startTime |-> d.startTime,
                               endTime |-> d.endTime, attendees |-> d.attendees]>>
                    /\ scheduleState' = [scheduleState EXCEPT !.active = FALSE]
             [] answer = NO ->
                    /\ schedTurn'.created = <<>>
                    /\ scheduleState' = [scheduleState EXCEPT !.active = FALSE]
             [] OTHER ->
                    /\ schedTurn'.created = <<>>
                    /\ scheduleState' = scheduleState
                    /\ schedTurn'.response = SCHED_YES_OR_NO]_vars

\* "Yes" at stage confirming created the event.
C14_Witness ==
    /\ schedTurn.handler = "confirming" /\ schedTurn.input = Str(<<"Y", "e", "s">>)
    /\ Len(schedTurn.created) = 1 /\ ~scheduleState.active

\* C15 as stated (timeout): a turn that reaches an active flow more than ten
\* minutes after its start deactivates the flow, whatever the stage, creates
\* nothing, changes nothing else and returns the timeout message; an input
\* that finds no active flow starts one with data of its own.
C15_ScheduleTimeout ==
    [][/\ (/\ schedTurn' # schedTurn /\ schedTurn'.activeBefore
           /\ schedTurn'.elapsed > SCHEDULE_TIMEOUT_MINUTES) =>
                /\ scheduleState' = [scheduleState EXCEPT !.active = FALSE]
                /\ schedTurn'.created = <<>>
                /\ schedTurn'.response = SCHED_TIMEOUT
       /\ (/\ schedTurn' # schedTurn /\ schedTurn'.handler = "activation"
           /\ ~schedTurn'.raised) =>
                /\ scheduleState'.active
                /\ scheduleState'.data.startTimestamp = clock
                /\ scheduleState'.stage = "collecting_date" =>
                        /\ scheduleState'.data.suggestedTimes = <<>>
                        /\ scheduleState'.data.startTime = NoTime]_vars

\* C15 as amended: the same for a turn whose input is text that is not
\* empty; any other input is refused before the age of the flow is looked
\* at, and leaves the flow as it is.
C15_ScheduleTimeoutOnText ==
    [][/\ (/\ schedTurn' # schedTurn /\ schedTurn'.activeBefore
           /\ schedTurn'.elapsed > SCHEDULE_TIMEOUT_MINUTES
           /\ schedTurn'.input.type = "string" /\ schedTurn'.input.s # <<>>) =>
                /\ scheduleState' = [scheduleState EXCEPT !.active = FALSE]
                /\ schedTurn'.created = <<>>
                /\ schedTurn'.response = SCHED_TIMEOUT
       /\ (/\ schedTurn' # schedTurn /\ schedTurn'.activeBefore
           /\ ~(schedTurn'.input.type = "string" /\ schedTurn'.input.s # <<>>)) =>
                /\ scheduleState' = scheduleState
                /\ schedTurn'.created = <<>>
       /\ (/\ schedTurn' # schedTurn /\ schedTurn'.handler = "activation"
           /\ ~schedTurn'.raised) =>
                /\ scheduleState'.active
                /\ scheduleState'.data.startTimestamp = clock
                /\ scheduleState'.stage = "collecting_date" =>
                        /\ scheduleState'.data.suggestedTimes = <<>>
                        /\ scheduleState'.data.startTime = NoTime]_vars

\* "Yes" reached a flow at stage confirming sixteen minutes after its start.
C15_Witness ==
    /\ schedTurn.activeBefore /\ schedTurn.stageBefore = "confirming"
    /\ schedTurn.elapsed > SCHEDULE_TIMEOUT_MINUTES
    /\ schedTurn.input = Str(<<"Y", "e", "s">>)
    /\ schedTurn.response = SCHED_TIMEOUT /\ ~scheduleState.active

\* C16 as stated (error reset): a turn in which a step of the flow raised
\* returns the recovery message and leaves the flow inactive; the flow is
\* never active at a stage that has no handler.
C16_ScheduleErrorReset ==
    /\ schedTurn.raised =>
            /\ schedTurn.response = SCHED_ERROR
            /\ ~scheduleState.active
    /\ scheduleState.active =>
            scheduleState.stage \in {"collecting_date", "suggesting_time", "confirming"}

\* The start of a flow raised on a time that is not HH:MM, and left the
\* flow active at stage parsing_request.
C16_Witness ==
    /\ schedTurn.raised /\ schedTurn.response = SCHED_ERROR
    /\ scheduleState.active /\ scheduleState.stage = "parsing_request"

(***************************************************************************)
(* The orchestrator's operation as an action.                              *)
(***************************************************************************)
ChatInit ==
    /\ ChatIdle
    /\ CacheInit

\* One turn: processInput with a text, the flows it calls included, its
\* external calls answering as o says.
ChatTurn(text, o) ==
    \E r \in {processInput(conversationHistory, emailState, scheduleState,
                           Str(text), clock, o)} :
        /\ conversationHistory' = r.history
        /\ emailState' = r.mail
        /\ scheduleState' = r.sched
        /\ chatTurn' = [input |-> Str(text), route |-> r.route,
                        intent |-> r.intent, extracted |-> r.extracted,
                        returned |-> r.returned, response |-> r.response,
                        stored |-> r.stored, created |-> r.created,
                        marked |-> r.marked, acted |-> r.acted,
                        overlap |-> r.asked /\ o.sched.overlap,
                        unread |-> IF r.route = "store" THEN chatTurn.unread
                                   ELSE r.marked,
                        createOk |-> /\ r.created # <<>>
                                     /\ createCalendarEvent(r.created[1], o.createOk)]

ProcessInput ==
    /\ Len(conversationHistory) <= MaxHistory
    /\ \E text \in ChatTexts :
        \E o \in ChatOutcomesAt(conversationHistory, emailState, scheduleState,
                                Str(text), clock) :
            ChatTurn(text, o)
    /\ UNCHANGED <<clock, turn, schedTurn, cacheVars, requestVars, callVars, optionVars>>

ChatNext == ProcessInput

SpecChat == ChatInit /\ [][ChatNext]_vars


(***************************************************************************)
(* Statements about the orchestrator.                                      *)
(***************************************************************************)
\* The history holds a marker of the kind.
HoldsSuggestionMarker(history) == \E i \in DOMAIN history : IsSuggestionMarker(history[i])
HoldsPendingMarker(history) == \E i \in DOMAIN history : IsPendingMarker(history[i])

\* Where the statement of the routing sends an input, given the history and
\* the mail flow as the turn finds them.
RouteStated(history, mail, userInput) ==
    IF HoldsPendingMarker(history) /\ (Confirms(userInput.s) \/ Denies(userInput.s))
    THEN "confirmation"
    ELSE IF HoldsSuggestionMarker(history) THEN "selection"
    ELSE IF mail.active THEN "mail"
    ELSE "intent"

\* C17 (routing priority): in every turn the user's message is stored first -
\* a turn that cannot store it does nothing else; then the input goes to the
\* resolution of a pending confirmation, else to the slot selection of a
\* pending suggestion, else to an active mail flow with no classification and
\* no extraction, and only otherwise is it classified, its entities
\* extracted, and dispatched by intent.
C17_RoutingPriority ==
    [][LET this == chatTurn'
       IN /\ this.stored = <<>> =>
                /\ this.route = "store"
                /\ conversationHistory' = conversationHistory
                /\ emailState' = emailState
                /\ scheduleState' = scheduleState
          /\ this.stored # <<>> =>
                /\ this.stored[1] = "user"
                /\ this.route = RouteStated(conversationHistory, emailState, this.input)
          /\ this.route \in {"store", "confirmation", "selection", "mail"} =>
                /\ this.intent = "none" /\ ~this.extracted
                /\ scheduleState' = scheduleState
          /\ this.route \in {"store", "confirmation", "selection", "intent"} /\ emailState.active =>
                emailState' = emailState
          /\ this.route = "selection" => this.acted
          /\ this.route = "intent" => this.intent # "none" /\ this.extracted
      ]_vars

\* An active mail flow took the input, unclassified, and moved on.
C17_Witness ==
    /\ chatTurn.route = "mail"
    /\ chatTurn.intent = "none"
    /\ chatTurn.stored = <<"user">>
    /\ emailState.active
    /\ emailState.stage = "confirming"

\* C18 (persistence of exchanges, as stated): a turn that returns a response
\* has written both the user's message and the assistant's response to the
\* message store, whatever the path it took.
C18_ExchangePersisted ==
    chatTurn.route # "none" /\ chatTurn.returned =>
        /\ Len(chatTurn.stored) >= 2
        /\ chatTurn.stored[1] = "user"
        /\ chatTurn.stored[2] = "assistant"

\* A slot was chosen and booked, the response returned, and the user's
\* message alone was stored.
C18_Witness ==
    /\ chatTurn.route = "selection"
    /\ chatTurn.returned
    /\ chatTurn.response = TIME_BOOKED
    /\ chatTurn.stored = <<"user">>

\* C19 (bounded history, as stated): after any sequence of turns
\* conversationHistory holds at most 10 entries.
C19_BoundedHistory == Len(conversationHistory) <= HISTORY_LIMIT

\* The history after a turn that found ten entries and returned: twelve.
C19_Witness ==
    /\ chatTurn.returned
    /\ Len(conversationHistory) = HISTORY_LIMIT + 2

\* The markers the history holds.
Markers(history) ==
    {i \in DOMAIN history : IsSuggestionMarker(history[i]) \/ IsPendingMarker(history[i])}

DisplayedTime(st) == st.data.time

\* C11 (end to end, as stated): the turn "Schedule a meeting called Standup
\* tomorrow at 9am" of a fresh conversation, with no event in the way, leaves
\* the scheduling flow at stage confirming with the title "Standup" and the
\* time shown as "9:00 AM"; and the turn "yes" right after such a turn makes
\* exactly one createCalendarEvent call, with the start and the end that were
\* to be confirmed.
C11_EndToEndScheduling ==
    [][/\ ( /\ chatTurn'.input = Str(STANDUP_REQUEST)
            /\ chatTurn'.returned
            /\ ~chatTurn'.overlap
            /\ conversationHistory = <<>>
            /\ ~emailState.active /\ ~scheduleState.active )
          => /\ scheduleState'.active
             /\ scheduleState'.stage = "confirming"
             /\ scheduleState'.data.title = STANDUP
             /\ DisplayedTime(scheduleState') = <<"9", ":", "0", "0", " ", "A", "M">>
       /\ ( /\ chatTurn.input = Str(STANDUP_REQUEST)
            /\ chatTurn.returned
            /\ scheduleState.active /\ scheduleState.stage = "confirming"
            /\ chatTurn'.input = Str(YES)
            /\ chatTurn'.stored # <<>> )
          => /\ Len(chatTurn'.created) = 1
             /\ chatTurn'.created[1].startTime = scheduleState.data.startTime
             /\ chatTurn'.created[1].endTime = scheduleState.data.endTime
      ]_vars

\* The request was confirmable, the "yes" after it went to the general chat,
\* and no event was created: the flow still waits at stage confirming.
C11_Witness ==
    /\ chatTurn.input = Str(YES)
    /\ chatTurn.intent = "chat_intent"
    /\ chatTurn.returned
    /\ chatTurn.created = <<>>
    /\ scheduleState.active
    /\ scheduleState.stage = "confirming"
    /\ scheduleState.data.title = STANDUP


(***************************************************************************)
(* The steps of a POST /chat request as actions: each runs from one await  *)
(* to the next.                                                            *)
(***************************************************************************)
RequestsInit ==
    /\ RequestsIdle
    /\ CacheInit

\* What the steps of a request leave alone.
requestFrame == <<clock, turn, cacheVars, scheduleVars, chatTurn, callVars, optionVars>>

StepOf(p, name, touched, response) ==
    [request |-> p, session |-> requests[p].session, step |-> name,
     touched |-> touched, response |-> response]

\* googleAuth.js:620, 720   the answer is pushed and the request goes on to
\* its end
Answer(p, history, name, response) ==
    /\ conversationHistory' = Append(history, AssistantEntry)
    /\ requests' = [requests EXCEPT ![p].pc = pcAfterAnswer(requests[p].route)]
    /\ lastStep' = StepOf(p, name, TRUE, response)

\* part_004:268-274   a request arrives and processInput awaits
\* Message.create for the user's message (googleAuth.js:575)
ArriveAmong(p, most) ==
    /\ requests[p].pc = "idle"
    /\ arrivals < most
    /\ \E text \in RequestTexts, sessionId \in SessionIds :
        /\ requests' = [requests EXCEPT ![p] = [NoRequest EXCEPT !.pc = "storing",
                                                               !.session = sessionId,
                                                               !.input = Str(text)]]
        /\ lastStep' = [NoStep EXCEPT !.request = p, !.session = sessionId, !.step = "arrive"]
    /\ arrivals' = arrivals + 1
    /\ UNCHANGED <<emailState, conversationHistory, binding, flowSession, requestFrame>>

Arrive(p) == ArriveAmong(p, MaxArrivals)

\* part_002:801-946   handleEmailIntent(userInput, entities) called by request
\* p, up to its first await or, when it reaches none, to its return
EnterMail(p, history, entities, route) ==
    \E w \in {awaitOf(emailState, requests[p].input, clock)} :
        IF w = "none"
        THEN \E r \in {handleEmailIntent(emailState, requests[p].input, entities, clock,
                                         NoOutcome)} :
                /\ emailState' = r.state
                /\ binding' = IF Rebinds(emailState, r.state) THEN binding + 1 ELSE binding
                /\ flowSession' = IF emailState.active THEN flowSession
                                  ELSE requests[p].session
                /\ conversationHistory' = Append(history, AssistantEntry)
                /\ requests' = [requests EXCEPT ![p].route = route,
                                                ![p].pc = pcAfterAnswer(route)]
                /\ lastStep' = StepOf(p, "handleEmailIntent", TRUE, r.response)
        ELSE /\ emailState' = beforeAwait(emailState, requests[p].input)
             /\ conversationHistory' = history
             /\ requests' = [requests EXCEPT ![p].route = route, ![p].pc = w,
                                             ![p].held = binding]
             /\ lastStep' = StepOf(p, "handleEmailIntent", TRUE, "")
             /\ UNCHANGED <<binding, flowSession>>

\* googleAuth.js:575-626   Message.create comes back: it failed and
\* processInput throws, or the user's entry is pushed and the input routed
Stored(p) ==
    /\ requests[p].pc = "storing"
    /\ \/ /\ requests' = [requests EXCEPT ![p].pc = "idle"]
          /\ lastStep' = StepOf(p, "store failed", FALSE, "")
          /\ UNCHANGED <<emailState, conversationHistory, binding, flowSession>>
       \/ \E history \in {pushUser(conversationHistory)} :
            \E route \in {routeOf(history, emailState, requests[p].input)} :
                IF route = "mail"
                THEN EnterMail(p, history, EmptyEntities, route)
                ELSE /\ route = "intent"
                     /\ conversationHistory' = history
                     /\ requests' = [requests EXCEPT ![p].route = route,
                                                     ![p].pc = "classifying"]
                     /\ lastStep' = StepOf(p, "isInEmailFlow", TRUE, "")
                     /\ UNCHANGED <<emailState, binding, flowSession>>
    /\ UNCHANGED <<arrivals, requestFrame>>

\* googleAuth.js:625-717   classifyIntent and extractEntities come back
Classified(p) ==
    /\ requests[p].pc = "classifying"
    /\ \E c \in RequestClassifyGateway, g \in RequestExtractionGateway :
        IF classifyIntent(requests[p].input, c) = "email_intent"
        THEN EnterMail(p, conversationHistory,
                       extractEntities(requests[p].input.s, emailState, g).entities,
                       "intent")
        ELSE /\ conversationHistory' = Append(conversationHistory, AssistantEntry)
             /\ requests' = [requests EXCEPT ![p].pc = "answering"]
             /\ lastStep' = StepOf(p, "chat", FALSE, CHAT_REPLY)
             /\ UNCHANGED <<emailState, binding, flowSession>>
    /\ UNCHANGED <<arrivals, requestFrame>>

\* part_002:865-880   analyzeContextCompleteness comes back
Analyzed(p) ==
    /\ requests[p].pc = "analyzing"
    /\ \E c \in ContextGateway :
        \E a \in {analyzeContextCompleteness(trim(requests[p].input.s), c)} :
            IF ~a.hasAllContext /\ a.missingInfo # "null"
            THEN /\ emailState' = [emailState EXCEPT !.stage = "collecting_context",
                                                      !.data.contextAnalysis = a.missingInfo]
                 /\ Answer(p, conversationHistory, "analyzed", MSG_CLARIFY)
            ELSE /\ emailState' = [emailState EXCEPT !.stage = "generating"]
                 /\ requests' = [requests EXCEPT ![p].pc = "styling", ![p].held = binding]
                 /\ lastStep' = StepOf(p, "analyzed", TRUE, "")
                 /\ UNCHANGED conversationHistory
    /\ UNCHANGED <<binding, flowSession, arrivals, requestFrame>>

\* part_002:985   analyzeEmailContext comes back: the profile is written to
\* the object proceedToEmailGeneration was given
Styled(p) ==
    /\ requests[p].pc = "styling"
    /\ \E style \in StyleProfiles :
        emailState' = IF requests[p].held = binding
                      THEN [emailState EXCEPT !.data.styleAnalysis = style]
                      ELSE emailState
    /\ requests' = [requests EXCEPT ![p].pc = "drafting"]
    /\ lastStep' = StepOf(p, "styled", TRUE, "")
    /\ UNCHANGED <<conversationHistory, binding, flowSession, arrivals, requestFrame>>

\* part_002:992-1005   generateHumanizedEmail comes back or throws
Drafted(p) ==
    /\ requests[p].pc = "drafting"
    /\ \E g \in GenerationOutcomes :
        \E r \in {proceedToEmailGeneration(
                      emailState,
                      [g EXCEPT !.style = emailState.data.styleAnalysis])} :
            /\ emailState' = IF requests[p].held = binding THEN r.state ELSE emailState
            /\ Answer(p, conversationHistory, "drafted", r.response)
    /\ UNCHANGED <<binding, flowSession, arrivals, requestFrame>>

\* part_002:894-908   sendEmail comes back or throws
Sent(p) ==
    /\ requests[p].pc = "sending"
    /\ \E backendOk \in BOOLEAN :
        \E sending \in {sendEmail(backendOk)} :
            IF sending.threw
            THEN /\ Answer(p, conversationHistory, "sent", MSG_SEND_ISSUE)
                 /\ UNCHANGED <<emailState, binding>>
            ELSE /\ emailState' = ResetState
                 /\ binding' = binding + 1
                 /\ Answer(p, conversationHistory, "sent", sending.result)
    /\ UNCHANGED <<flowSession, arrivals, requestFrame>>

\* googleAuth.js:724-735, part_004:275   Message.create and saveConversation
\* come back and the response is sent
Answered(p) ==
    /\ requests[p].pc = "answering"
    /\ requests' = [requests EXCEPT ![p].pc = "idle"]
    /\ lastStep' = StepOf(p, "answered", FALSE, lastStep.response)
    /\ UNCHANGED <<emailState, conversationHistory, binding, flowSession, arrivals,
                   requestFrame>>

RequestsNext ==
    \E p \in Requests :
        \/ Arrive(p)
        \/ Stored(p)
        \/ Classified(p)
        \/ Analyzed(p)
        \/ Styled(p)
        \/ Drafted(p)
        \/ Sent(p)
        \/ Answered(p)

SpecRequests == RequestsInit /\ [][RequestsNext]_vars

(***************************************************************************)
(* Statements about requests in flight.                                    *)
(***************************************************************************)
\* C21: while a request is suspended at an await inside handleEmailIntent or
\* proceedToEmailGeneration, no step of another request reads or writes
\* emailState: a turn is processed to its end before the next one touches
\* the flow.
C21_SequentialTurns ==
    [][\A p \in Requests :
          (requests[p].pc \in InMailHandler /\ lastStep'.request # p)
              => ~lastStep'.touched]_vars

\* A request is suspended inside the mail flow's handler and the step just
\* taken, by the other request, read or wrote emailState.
C21_Witness ==
    \E p \in Requests :
        /\ requests[p].pc \in InMailHandler
        /\ lastStep.request \in Requests \ {p}
        /\ lastStep.touched

\* C22: a step of a request under one sessionId never reads or writes the
\* mail flow started by a request under another sessionId.
C22_SessionIsolation ==
    [][(emailState.active /\ lastStep'.touched) => lastStep'.session = flowSession]_vars

\* The mail flow started under one sessionId has just taken the input of a
\* request under the other as the answer to its question.
C22_Witness ==
    /\ lastStep.step = "handleEmailIntent"
    /\ lastStep.session \in SessionIds \ {flowSession}
    /\ flowSession \in SessionIds
    /\ requests[lastStep.request].route = "mail"
    /\ emailState.active

(***************************************************************************)
(* eventAnalyzer.js:11-64 / part_001:29-87: parseDateAndTime on a gateway  *)
(* answer that holds a start and an end clock time.                        *)
(***************************************************************************)
ClockHours == {0, 9, 14, 23}
ClockMinutes == {0, 15, 30}
ClockTimes == [h : ClockHours, m : ClockMinutes]
\* "duration": 0 or null in the answer, or the minutes it gives
GivenDurations == {0, 45}

\* "HH:MM"
ClockText(c) == TwoDigits(c.h) \o <<":">> \o TwoDigits(c.m)

DurationInit ==
    /\ CacheLoaded
    /\ callArgs \in [time : ClockTimes, endTime : ClockTimes, duration : GivenDurations]
    /\ callResult = NoResult

\* parseDateAndTime(text) with the gateway answering the JSON of callArgs
ParseClockTimes ==
    /\ ~callResult.done
    /\ callResult' = ResultOf(
            parseDateAndTime(Str(STANDUP_REQUEST),
                             Parsed(NullDate, ClockText(callArgs.time),
                                    ClockText(callArgs.endTime), callArgs.duration,
                                    STANDUP, <<>>)).duration)
    /\ UNCHANGED <<callArgs, cacheVars, mailVars, scheduleVars, chatVars, requestVars, optionVars>>

DurationNext == ParseClockTimes

SpecDuration == DurationInit /\ [][DurationNext]_vars

MinutesOfDay(c) == c.h * 60 + c.m

\* C23: with both clock times and no duration, the duration is
\* (end - start) mod 1440 minutes.
C23_DurationInference ==
    (callResult.done /\ callArgs.duration = 0)
        => callResult.value =
              (MinutesOfDay(callArgs.endTime) - MinutesOfDay(callArgs.time)) % 1440

\* C23 as the code has it: a difference that is not positive has 1440 added,
\* so that equal clock times give 1440 minutes and not 0.
C23_DurationInferenceWholeDay ==
    (callResult.done /\ callArgs.duration = 0)
        => callResult.value =
              IF callArgs.endTime = callArgs.time THEN 1440
              ELSE (MinutesOfDay(callArgs.endTime) - MinutesOfDay(callArgs.time)) % 1440

\* 23:30 to 00:15 parsed without a duration: 45 minutes.
C23_Witness ==
    /\ callResult.done
    /\ callArgs = [time |-> [h |-> 23, m |-> 30], endTime |-> [h |-> 0, m |-> 15],
                   duration |-> 0]
    /\ callResult.value = 45

(***************************************************************************)
(* src/services/calendar/eventAnalyzer.js:243-339: findAvailableTimeSlots. *)
(* Times are minutes from local midnight of the target day.                *)
(***************************************************************************)
\* eventAnalyzer.js:258   workingHours = { start: 9, end: 17 }
workingHours == [start |-> 9, end |-> 17]
SlotStepMinutes == 30       \* eventAnalyzer.js:302, 326   30 * 60 * 1000 ms
MaxSlots == 5               \* eventAnalyzer.js:331   slice(0, 5)

Clock(h, m) == h * 60 + m

\* An event of the calendar: timed (start.dateTime, end.dateTime) or all-day
\* (start.date only).
TimedEvent(from, to) == [allDay |-> FALSE, start |-> from, end |-> to]
AllDayEvent == [allDay |-> TRUE, start |-> 0, end |-> 24 * 60]

\* The events the calendar may hold on the target day.
CandidateEvents ==
    {AllDayEvent,
     TimedEvent(Clock(8, 0), Clock(9, 30)),
     TimedEvent(Clock(9, 0), Clock(16, 30)),
     TimedEvent(Clock(10, 0), Clock(11, 0)),
     TimedEvent(Clock(16, 0), Clock(17, 30)),
     TimedEvent(Clock(18, 0), Clock(19, 0))}
SlotDurations == {30, 60, 120}
\* The time of the call: 08:00, 10:10, 16:45, 20:00
CallTimes == {Clock(8, 0), Clock(10, 10), Clock(16, 45), Clock(20, 0)}
TargetDates == {"invalid", "today", "another day"}

\* eventAnalyzer.js:277-281   events.sort by start time
RECURSIVE sortedEvents(_)
sortedEvents(events) ==
    IF events = {} THEN <<>>
    ELSE LET first == CHOOSE e \in events : \A f \in events : e.start <= f.start
         IN <<first>> \o sortedEvents(events \ {first})

\* eventAnalyzer.js:260-275   the start of the window: 09:00, or on the day of
\* the call the time of the call with its minutes rounded up to 0, 30 or 60
dayStart(targetDate, t) ==
    IF targetDate = "today" /\ t > Clock(workingHours.start, 0)
    THEN Clock(t \div 60, (((t % 60) + 29) \div 30) * 30)
    ELSE Clock(workingHours.start, 0)

dayEnd == Clock(workingHours.end, 0)

\* eventAnalyzer.js:302, 326   the next candidate start
nextSlotStartAfterQuarter(slotStart) == slotStart + 15
nextSlotStart(slotStart) == slotStart + SlotStepMinutes

\* eventAnalyzer.js:295-303, 319-327   the slots pushed from slotStart on while
\* they end by gapEnd
RECURSIVE slotsUntilStartReaches(_, _, _)
slotsUntilStartReaches(slotStart, gapEnd, duration) ==
    IF slotStart <= gapEnd
    THEN <<[start |-> slotStart, end |-> slotStart + duration]>>
         \o slotsUntilStartReaches(nextSlotStart(slotStart), gapEnd, duration)
    ELSE <<>>
RECURSIVE slotsUntil(_, _, _)
slotsUntil(slotStart, gapEnd, duration) ==
    IF slotStart + duration <= gapEnd
    THEN <<[start |-> slotStart, end |-> slotStart + duration]>>
         \o slotsUntil(nextSlotStart(slotStart), gapEnd, duration)
    ELSE <<>>

\* eventAnalyzer.js:288-305   the slots of the gap before an event
gapBefore(event, currentStart, duration) ==
    IF event.start > currentStart /\ event.start - currentStart >= duration
    THEN slotsUntil(currentStart, event.start, duration)
    ELSE <<>>

\* eventAnalyzer.js:308-310   the cursor moved past an event
cursorPast(event, currentStart) ==
    IF event.end > currentStart THEN event.end ELSE currentStart

\* eventAnalyzer.js:284-328   the loop over the sorted events and the slots
\* after the last of them
RECURSIVE scanGaps(_, _, _, _, _)
scanGaps(events, i, currentStart, duration, availableSlots) ==
    IF i > Len(events)
    THEN IF currentStart < dayEnd
         THEN availableSlots \o slotsUntil(currentStart, dayEnd, duration)
         ELSE availableSlots
    ELSE IF events[i].allDay
    THEN scanGaps(events, i + 1, currentStart, duration, availableSlots)
    ELSE scanGaps(events, i + 1, cursorPast(events[i], currentStart), duration,
                  availableSlots \o gapBefore(events[i], currentStart, duration))

\* slice(0, 5)
FirstSlots(slots) == SubSeq(slots, 1, IF Len(slots) < MaxSlots THEN Len(slots) ELSE MaxSlots)

\* eventAnalyzer.js:243-339   findAvailableTimeSlots(targetDate, duration) at
\* time t of the day, the calendar holding events or its call failing
findAvailableTimeSlots(targetDate, duration, t, events, fetched) ==
    IF targetDate = "invalid" \/ ~fetched THEN <<>>
    ELSE FirstSlots(scanGaps(sortedEvents(events), 1, dayStart(targetDate, t), duration,
                             <<>>))

SlotsInit ==
    /\ CacheLoaded
    /\ callArgs \in [targetDate : TargetDates, duration : SlotDurations, t : CallTimes,
                     events : SUBSET CandidateEvents, fetched : BOOLEAN]
    /\ callResult = NoResult

FindAvailableTimeSlots ==
    /\ ~callResult.done
    /\ callResult' = ResultOf(findAvailableTimeSlots(callArgs.targetDate, callArgs.duration,
                                                     callArgs.t, callArgs.events,
                                                     callArgs.fetched))
    /\ UNCHANGED <<callArgs, cacheVars, mailVars, scheduleVars, chatVars, requestVars, optionVars>>

SlotsNext == FindAvailableTimeSlots

SpecSlots == SlotsInit /\ [][SlotsNext]_vars

\* The slots returned for a target date that is a date, the calendar
\* answering.
Searched == callResult.done /\ callArgs.targetDate # "invalid" /\ callArgs.fetched
TimedEvents == {e \in callArgs.events : ~e.allDay}
EmptyDay == Searched /\ callArgs.events = {} /\ callArgs.duration = 60
SpacedAndInHours(slots) ==
    /\ \A i \in 1..Len(slots) - 1 : slots[i + 1].start - slots[i].start >= 30
    /\ \A i \in 1..Len(slots) : slots[i].end <= Clock(17, 0)

\* C24: on a day without events and for 60 minutes, the first slot returned
\* starts at 09:00, the starts are 30 minutes apart or more and no slot ends
\* after 17:00.
C24_EmptyDay ==
    EmptyDay =>
        /\ Len(callResult.value) > 0
        /\ callResult.value[1].start = Clock(9, 0)
        /\ SpacedAndInHours(callResult.value)

\* C24 with the day of the call set apart: there the first slot starts at
\* the advanced window start, and there is none when that leaves no room.
C24_EmptyDayNotAdvanced ==
    EmptyDay =>
        /\ SpacedAndInHours(callResult.value)
        /\ (callArgs.targetDate # "today" \/ callArgs.t <= Clock(9, 0))
              => /\ Len(callResult.value) > 0
                 /\ callResult.value[1].start = Clock(9, 0)

\* Five slots from 09:00 on for another day without events.
C24_Witness ==
    /\ EmptyDay
    /\ callArgs.targetDate = "another day"
    /\ Len(callResult.value) = MaxSlots
    /\ callResult.value[1] = [start |-> Clock(9, 0), end |-> Clock(10, 0)]

\* C25: every slot returned starts at or after the window start and ends by
\* 17:00.
C25_WorkingWindow ==
    Searched =>
        \A i \in 1..Len(callResult.value) :
            /\ callResult.value[i].start >= dayStart(callArgs.targetDate, callArgs.t)
            /\ callResult.value[i].end <= Clock(17, 0)

\* A slot is returned that ends after 17:00, before an event of the evening.
C25_Witness ==
    /\ Searched
    /\ \E i \in 1..Len(callResult.value) : callResult.value[i].end > Clock(17, 0)
    /\ \E e \in TimedEvents : e.start >= Clock(17, 0)

styleCacheExpiry == 60      \* part_002:12   60 * 60 * 1000 ms
AnalysisTime == 100         \* Date.now() of the call, in minutes

GMAIL_ADDRESS == <<"a", "@", "g", "m", "a", "i", "l", ".", "c", "o", "m">>
EDU_ADDRESS == <<"a", "@", "m", "i", "t", ".", "e", "d", "u">>
GOV_ADDRESS == <<"a", "@", "n", "a", "s", "a", ".", "g", "o", "v">>
StyleRecipients == {Address, GMAIL_ADDRESS, EDU_ADDRESS, GOV_ADDRESS}

\* What model.generateContent gives for a prompt: a JSON object, text
\* without one, or an error.
GatewayAnswers == {"json", "text", "error"}

AtSign == Address[2]

\* part_002:191   recipient.split(AtSign)[1] || ''
domainOf(recipient) ==
    LET at == IndexOf(recipient, AtSign, 1)
        next == IF at = 0 THEN 0 ELSE IndexOf(recipient, AtSign, at + 1)
    IN IF at = 0 THEN <<>>
       ELSE SubSeq(recipient, at + 1, IF next = 0 THEN Len(recipient) ELSE next - 1)

\* part_002:186-311   analyzeEmailDomain: the gateway's profile, a fixed
\* profile for the kind of domain, or the default profile when the call fails
analyzeEmailDomain(recipient, gateway) ==
    LET domain == domainOf(recipient)
    IN CASE gateway = "json" -> "profile:domain"
         [] gateway = "error" -> "profile:unknown"
         [] OTHER ->
              IF includes(domain, <<"g", "m", "a", "i", "l">>) \/ includes(domain, <<"y", "a", "h", "o", "o">>)
                 \/ includes(domain, <<"h", "o", "t", "m", "a", "i", "l">>) \/ includes(domain, <<"o", "u", "t", "l", "o", "o", "k", ".", "c", "o", "m">>)
              THEN "profile:personal"
              ELSE IF includes(domain, <<"e", "d", "u">>) THEN "profile:academic"
              ELSE IF includes(domain, <<"g", "o", "v">>) THEN "profile:government"
              ELSE "profile:business"

CacheEntry(style, timestamp) == <<[style |-> style, timestamp |-> timestamp]>>

\* part_002:391-428   the retry loop: the first attempt that gives JSON ends
\* it; three attempts without JSON leave it
RECURSIVE firstJson(_, _)
firstJson(attempts, i) ==
    IF i > maxAttempts THEN 0
    ELSE IF attempts[i] = "json" THEN i ELSE firstJson(attempts, i + 1)

\* part_002:430-440   the domain analysis is returned and cached as if it
\* were half the expiry old
domainFallback(recipient, entry, t, o) ==
    [style |-> analyzeEmailDomain(recipient, o.domain),
     entry |-> CacheEntry(analyzeEmailDomain(recipient, o.domain),
                          t - (styleCacheExpiry \div 2))]

\* part_002:318-452   analyzeEmailContext(recipient) at time t.  o.texts: the
\* number of earlier mails with text that searchEmails found; o.attempts:
\* what the gateway gives at each attempt; o.domain: what it gives for the
\* domain prompt.  searchEmails, extractEmailContent and analyzeEmailDomain
\* catch their own errors, so nothing raises inside the try of 331-441.
analyzeEmailContext(recipient, entry, t, o) ==
    IF entry # <<>> /\ t - entry[1].timestamp < styleCacheExpiry
    THEN [style |-> entry[1].style, entry |-> entry]
    ELSE IF o.texts > 0 /\ firstJson(o.attempts, 1) > 0
    THEN [style |-> "profile:analysed", entry |-> CacheEntry("profile:analysed", t)]
    ELSE domainFallback(recipient, entry, t, o)

\* The entry the cache holds at the call: none, one that is 10 minutes old,
\* one that is 70 minutes old.
CachedEntries ==
    {<<>>, CacheEntry("profile:cached", AnalysisTime - 10),
     CacheEntry("profile:cached", AnalysisTime - 70)}

StyleInit ==
    /\ CacheLoaded
    /\ callArgs \in [recipient : StyleRecipients, entry : CachedEntries,
                     texts : {0, 2}, attempts : [1..maxAttempts -> GatewayAnswers],
                     domain : GatewayAnswers]
    /\ callResult = NoResult

AnalyzeEmailContext ==
    /\ ~callResult.done
    /\ callResult' = ResultOf(analyzeEmailContext(callArgs.recipient, callArgs.entry,
                                                  AnalysisTime, callArgs))
    /\ UNCHANGED <<callArgs, cacheVars, mailVars, scheduleVars, chatVars, requestVars, optionVars>>

StyleNext == AnalyzeEmailContext

SpecStyle == StyleInit /\ [][StyleNext]_vars

\* Every attempt of the analysis failed, and so did the gateway's call for
\* the domain: nothing the gateway gave was usable.
TotalFailure ==
    /\ callResult.done
    /\ callArgs.texts > 0
    /\ \A i \in 1..maxAttempts : callArgs.attempts[i] = "error"
    /\ callArgs.domain = "error"

\* C29: when every attempt fails, the profile cached for the recipient is
\* returned, expired or not, and stays in the cache; the default profile is
\* returned only when none is cached.
C29_StyleOnTotalFailure ==
    TotalFailure =>
        IF callArgs.entry # <<>>
        THEN /\ callResult.value.style = callArgs.entry[1].style
             /\ callResult.value.entry = callArgs.entry
        ELSE callResult.value.style = "profile:unknown"

\* Every attempt failed with an expired profile in the cache: the default
\* profile is returned and has replaced the cached one.
C29_Witness ==
    /\ TotalFailure
    /\ callArgs.entry = CacheEntry("profile:cached", AnalysisTime - 70)
    /\ callResult.value.style = "profile:unknown"
    /\ callResult.value.entry = CacheEntry("profile:unknown", AnalysisTime - 30)

\* The fixed profile the kind of the recipient's domain stands for.
HeuristicProfile ==
    [recipient \in StyleRecipients |->
        CASE recipient = GMAIL_ADDRESS -> "profile:personal"
          [] recipient = EDU_ADDRESS -> "profile:academic"
          [] recipient = GOV_ADDRESS -> "profile:government"
          [] OTHER -> "profile:business"]

\* No earlier mail with text was found, and no fresh profile is cached.
NoUsableText ==
    /\ callResult.done
    /\ callArgs.texts = 0
    /\ ~(callArgs.entry # <<>> /\ AnalysisTime - callArgs.entry[1].timestamp < styleCacheExpiry)

\* C34 (domain heuristic): without usable text of earlier mails, the
\* profile returned is the fixed profile of the kind of the recipient's
\* domain, whatever the gateway answers and when it cannot be reached.
C34_DomainHeuristic ==
    NoUsableText => callResult.value.style = HeuristicProfile[callArgs.recipient]

\* Without earlier mails and with the gateway failing, the profile returned
\* for an address of a university is the default one, of relationship
\* "unknown".
C34_Witness ==
    /\ NoUsableText
    /\ callArgs.recipient = EDU_ADDRESS /\ callArgs.domain = "error"
    /\ callResult.value.style = "profile:unknown"

(***************************************************************************)
(* googleAuth.js:347-389: classifyIntent on a text and the gateway's       *)
(* answer to the classification prompt.                                    *)
(***************************************************************************)
\* The category tokens looked for in the answer, in the order of 363-366.
IntentTokens ==
    <<<<"r", "e", "s", "e", "a", "r", "c", "h", "_", "i", "n", "t", "e", "n", "t">>, <<"c", "a", "l", "e", "n", "d", "a", "r", "_", "i", "n", "t", "e", "n", "t">>, <<"e", "m", "a", "i", "l", "_", "i", "n", "t", "e", "n", "t">>, <<"e", "x", "i", "t", "_", "i", "n", "t", "e", "n", "t">>>>

\* googleAuth.js:360-366   response.toLowerCase().includes(token)
mentionsOf(response) ==
    {IntentOrder[i] : i \in {j \in 1..4 : includes(toLowerCase(response), IntentTokens[j])}}

\* What the gateway answers, or "error" when the call fails.
ClassifyResponses ==
    {<<"c", "h", "a", "t", "_", "i", "n", "t", "e", "n", "t">>, <<"E", "M", "A", "I", "L", "_", "I", "N", "T", "E", "N", "T">>, <<"E", "x", "i", "t", "_", "I", "n", "t", "e", "n", "t", " ", "o", "r", " ", "c", "a", "l", "e", "n", "d", "a", "r", "_", "i", "n", "t", "e", "n", "t">>,
     <<"e", "m", "a", "i", "l", "_", "i", "n", "t", "e", "n", "t", ",", " ", "r", "e", "s", "e", "a", "r", "c", "h", "_", "i", "n", "t", "e", "n", "t">>, <<"n", "o", " ", "i", "d", "e", "a">>, <<"I", "n", "t", "e", "n", "t", ":", " ", "C", "a", "l", "e", "n", "d", "a", "r", "_", "I", "n", "t", "e", "n", "t">>,
     <<>>}
ClassifyAnswers ==
    {[ok |-> TRUE, response |-> r] : r \in ClassifyResponses}
    \cup {[ok |-> FALSE, response |-> <<>>]}

\* The inputs classified: texts with no, one and two keywords, and a message
\* that is no text.
ClassifyInputs ==
    {Str(t) : t \in {<<"h", "e", "l", "l", "o">>, MAIL_REQUEST, <<"Q", "u", "i", "t", " ", "t", "h", "e", " ", "R", "E", "S", "E", "A", "R", "C", "H">>, <<"r", "e", "s", "c", "h", "e", "d", "u", "l", "e">>,
                     <<"Q", "U", "I", "T">>, <<"a", "n", " ", "e", "m", "a", "i", "l", " ", "t", "o", " ", "s", "c", "h", "e", "d", "u", "l", "e">>, YES}}
    \cup {Num(42)}

ClassifyInit ==
    /\ CacheLoaded
    /\ callArgs \in [text : ClassifyInputs, gateway : ClassifyAnswers]
    /\ callResult = NoResult

ClassifyIntent ==
    /\ ~callResult.done
    /\ callResult' = ResultOf(
            classifyIntent(callArgs.text,
                           [ok |-> callArgs.gateway.ok,
                            mentions |-> mentionsOf(callArgs.gateway.response)]))
    /\ UNCHANGED <<callArgs, cacheVars, mailVars, scheduleVars, chatVars, requestVars, optionVars>>

ClassifyNext == ClassifyIntent

SpecClassify == ClassifyInit /\ [][ClassifyNext]_vars

\* The answer holds the i-th category token, whatever its case.
TokenIn(i) == includes(toLowerCase(callArgs.gateway.response), IntentTokens[i])
\* The input holds the i-th keyword, whatever its case.
KeywordIn(i) ==
    /\ callArgs.text.type = "string"
    /\ includes(toLowerCase(callArgs.text.s), IntentKeywords[i])
FirstOf(holds(_), intent) ==
    \E i \in 1..4 : /\ holds(i)
                    /\ \A j \in 1..i - 1 : ~holds(j)
                    /\ intent = IntentOrder[i]
ByKeyword(intent) ==
    IF \E i \in 1..4 : KeywordIn(i) THEN FirstOf(KeywordIn, intent)
    ELSE intent = "chat_intent"

\* C26: classifyIntent returns one of the five intents; of the category
\* tokens in the gateway's answer the earliest in the order research,
\* calendar, mail, exit decides; with none of them the keyword table is
\* applied to the input, and chat is returned only if no keyword is in it.
C26_ClassifyPriority ==
    callResult.done =>
        /\ callResult.value \in {"research_intent", "calendar_intent", "email_intent",
                                 "exit_intent", "chat_intent"}
        /\ callArgs.gateway.ok =>
              IF \E i \in 1..4 : TokenIn(i)
              THEN FirstOf(TokenIn, callResult.value)
              ELSE ByKeyword(callResult.value)

\* An answer naming two categories in mixed case, the later one first: the
\* earlier in the order is returned.
C26_Witness ==
    /\ callResult.done
    /\ callArgs.gateway.ok
    /\ callArgs.gateway.response = <<"E", "x", "i", "t", "_", "I", "n", "t", "e", "n", "t", " ", "o", "r", " ", "c", "a", "l", "e", "n", "d", "a", "r", "_", "i", "n", "t", "e", "n", "t">>
    /\ callResult.value = "calendar_intent"

\* C27: when the gateway's call fails the keyword table decides, and chat is
\* returned only if no keyword is in the input.
C27_ClassifyOnFailure ==
    (callResult.done /\ ~callArgs.gateway.ok) => ByKeyword(callResult.value)

\* The gateway's call failed for an input that holds the keyword email, and
\* chat is returned.
C27_Witness ==
    /\ callResult.done
    /\ ~callArgs.gateway.ok
    /\ callArgs.text = Str(MAIL_REQUEST)
    /\ callResult.value = "chat_intent"

(***************************************************************************)
(* Statements about the texts answered when a call fails.                  *)
(***************************************************************************)
\* The responses that are built from the message of the error caught:
\* googleAuth.js:714 `AI: Couldn't process that: ${error.message}`,
\* email.js:33 `Error sending email: ${error.message}`,
\* calendar.js:180 `Sorry, I couldn't create the event. ${result.error || ...}`
WithErrorMessage == {CHAT_FAILED, MSG_SEND_ERROR, TIME_NOT_CREATED}

\* C28: no response of processInput holds the message of an exception or of
\* a backend's error.
C28_NoRawErrorText == chatTurn.response \notin WithErrorMessage

\* The gateway's chat session failed in a turn classified as chat, and the
\* turn answered with the error's message.
C28_Witness ==
    /\ chatTurn.intent = "chat_intent"
    /\ chatTurn.returned
    /\ chatTurn.response = CHAT_FAILED

(***************************************************************************)
(* The scheduling flow answering a list of numbered options                *)
(* (src/unnamed/part_004:33-61, 141-155).                                  *)
(***************************************************************************)
\* A slot of tomorrow, n half hours after 09:00.
MorningSlot(n) ==
    Slot(24 * 60 + 9 * 60 + 30 * n, 24 * 60 + 10 * 60 + 30 * n, "<start> - <end>")

\* eventAnalyzer.js:227-230   the array of the gateway's answer is returned
\* as parsed, whatever its length: here six suggestions.
SixSuggestions == [i \in 1..6 |-> MorningSlot(i - 1)]

\* eventAnalyzer.js:331   the five slots findAvailableTimeSlots returns for a
\* free day.
FiveFreeSlots == [i \in 1..MaxSlots |-> MorningSlot(i - 1)]

\* What the gateway suggests and what the calendar leaves free: nothing at
\* all, one suggestion, six suggestions, no suggestion and five free slots.
SuggestSlotOutcomes ==
    {<<<<>>, <<>>>>, <<<<HalfPastNine>>, <<>>>>, <<SixSuggestions, <<>>>>,
     <<<<>>, FiveFreeSlots>>}

SuggestInputs == {Str(t) : t \in SuggestTexts}

\* One call of schedulingFlow.handleScheduleIntent with a date, a number or
\* "no".
AnswerOptions ==
    /\ \E userInput \in SuggestInputs :
        \E o \in ScheduleOutcomesAmong(SuggestSlotOutcomes, scheduleState, userInput, clock) :
            ScheduleTurn(userInput, o)
    /\ UNCHANGED <<cacheVars, mailVars, chatVars, requestVars, callVars, optionVars>>

SuggestNext == AnswerOptions \/ MailTick

SpecSuggest == ScheduleInit /\ [][SuggestNext]_vars

\* The option the text of a turn names: the number it is.
OptionNamed(input) == Number(input.s)

\* C31 (suggesting_time): the flow presents at most 5 numbered options; at
\* stage suggesting_time an input that is the number of a presented option
\* sets the start and the end to that option's and moves the stage to
\* confirming, which every presented option allows; any other input leaves
\* the flow as it is and asks again.
C31_SuggestingTime ==
    [][/\ (scheduleState'.active /\ scheduleState'.stage = "suggesting_time") =>
            Len(scheduleState'.data.suggestedTimes) <= 5
       /\ (schedTurn' # schedTurn /\ schedTurn'.handler = "suggesting_time") =>
            LET presented == scheduleState.data.suggestedTimes
                n == OptionNamed(schedTurn'.input)
            IN IF n \in 1..Len(presented)
               THEN /\ scheduleState' =
                            [scheduleState EXCEPT
                                !.data.startTime = IsoTime(presented[n].start),
                                !.data.endTime = IsoTime(presented[n].end),
                                !.stage = "confirming"]
                    /\ schedTurn'.response = SCHED_CONFIRM_SLOT
               ELSE /\ scheduleState' = scheduleState
                    /\ schedTurn'.response \in {SCHED_BAD_OPTION, SCHED_BAD_SELECTION}]_vars

\* The third of five presented options was selected.
C31_Witness ==
    /\ schedTurn.handler = "suggesting_time" /\ schedTurn.input = Str(THREE)
    /\ Len(scheduleState.data.suggestedTimes) = 5
    /\ scheduleState.stage = "confirming"
    /\ scheduleState.data.startTime = IsoTime(scheduleState.data.suggestedTimes[3].start)
    /\ scheduleState.data.endTime = IsoTime(scheduleState.data.suggestedTimes[3].end)

(***************************************************************************)
(* The orchestrator answering the suggestions of the enhanced schedule     *)
(* handler (googleAuth.js:592-615, calendar.js:144-188).                   *)
(***************************************************************************)
MaxSelectHistory == 6   \* selections are made while the history is no longer

\* The gateway suggests no slot or three.
ThreeSuggestions == [i \in 1..3 |-> MorningSlot(i - 1)]

\* One turn: processInput with a request to schedule, a number or "Schedule
\* #2".
SelectSlot ==
    /\ Len(conversationHistory) <= MaxSelectHistory
    /\ \E text \in SelectTexts :
        \E o \in ChatOutcomesAmong({<<>>, ThreeSuggestions}, conversationHistory,
                                   emailState, scheduleState, Str(text), clock) :
            ChatTurn(text, o)
    /\ UNCHANGED <<clock, turn, schedTurn, cacheVars, requestVars, callVars, optionVars>>

SelectNext == SelectSlot

SpecSelect == ChatInit /\ [][SelectNext]_vars

\* The option each text selects, 0 when it selects none.
SelectedOption ==
    [text \in SelectTexts |->
        CASE text = ONE -> 1
          [] text = SCHEDULE_TWO -> 2
          [] text = THREE -> 3
          [] text = SIX -> 6
          [] OTHER -> 0]

\* C32 (slot selection): when the history holds a suggestion marker with
\* suggestions S, a stored input that selects i in 1..|S| makes one
\* createCalendarEvent call with the start and the end of S[i] and the
\* parsed title; any other input makes none; the user is told the event is
\* booked only when the call returned success.
C32_SlotSelection ==
    [][LET pending == SelectSeq(pushUser(conversationHistory), IsSuggestionMarker)
       IN (chatTurn' # chatTurn /\ chatTurn'.route # "store" /\ Len(pending) > 0) =>
            LET context == pending[Len(pending)].context
                S == context.suggestions
                i == SelectedOption[chatTurn'.input.s]
            IN /\ chatTurn'.route = "selection"
               /\ IF i \in 1..Len(S)
                  THEN /\ Len(chatTurn'.created) = 1
                       /\ chatTurn'.created[1].title = context.parsedInput.title
                       /\ chatTurn'.created[1].startTime = IsoTime(S[i].start)
                       /\ chatTurn'.created[1].endTime = IsoTime(S[i].end)
                  ELSE chatTurn'.created = <<>>
               /\ chatTurn'.response = TIME_BOOKED => chatTurn'.createOk]_vars

\* "Schedule #2" booked the second of three suggestions.
C32_Witness ==
    /\ chatTurn.route = "selection" /\ chatTurn.input = Str(SCHEDULE_TWO)
    /\ Len(chatTurn.created) = 1
    /\ chatTurn.created[1].startTime = IsoTime(ThreeSuggestions[2].start)
    /\ chatTurn.created[1].title = STANDUP
    /\ chatTurn.createOk /\ chatTurn.response = TIME_BOOKED

(***************************************************************************)
(* src/unnamed/part_003:8-86: createCalendarEvent called with given event  *)
(* details.                                                                *)
(***************************************************************************)
\* The title, the start and the end: missing, an ISO string, or - for a start
\* or an end - text that is no date.
EventDetails ==
    [title : {<<>>, STANDUP}, startTime : {NoTime, IsoTime(9 * 60), OtherText},
     endTime : {NoTime, IsoTime(10 * 60), OtherText}, attendees : {<<>>}]
CalendarClients == {"client", "null", "throws"}

CreateInit ==
    /\ CacheLoaded
    /\ callArgs \in [eventDetails : EventDetails, client : CalendarClients,
                     inserted : BOOLEAN]
    /\ callResult = NoResult

CreateCalendarEvent ==
    /\ ~callResult.done
    /\ callResult' = ResultOf(createCalendarEventResult(callArgs.eventDetails,
                                                        callArgs.client, callArgs.inserted))
    /\ UNCHANGED <<callArgs, cacheVars, mailVars, scheduleVars, chatVars, requestVars, optionVars>>

CreateNext == CreateCalendarEvent

SpecCreate == CreateInit /\ [][CreateNext]_vars

MissingDetails(details) ==
    \/ details.title = <<>>
    \/ details.startTime = NoTime
    \/ details.endTime = NoTime

\* C33 (validation short-circuit): createCalendarEvent called without a
\* title, a start or an end returns success false with an error, calls the
\* calendar backend neither for the client nor to insert, and does not
\* raise.
C33_ValidationShortCircuit ==
    (callResult.done /\ MissingDetails(callArgs.eventDetails)) =>
        /\ ~callResult.value.success
        /\ callResult.value.error # ""
        /\ callResult.value.calls = <<>>
        /\ ~callResult.value.raised

\* Details without a title were refused though the backend would have
\* raised.
C33_Witness ==
    /\ callResult.done
    /\ callArgs.eventDetails.title = <<>> /\ callArgs.eventDetails.startTime.valid
    /\ callArgs.client = "throws"
    /\ callResult.value = CreateResult(FALSE, CREATE_MISSING_DETAILS, <<>>)

(***************************************************************************)
(* part_002:391-428 and 598-641: the retry loops of analyzeEmailContext    *)
(* and generateHumanizedEmail, with the calls and the waits they make.     *)
(***************************************************************************)
\* A call of model.generateContent with a prompt, a wait of setTimeout.
GatewayCall(prompt) == [op |-> "generateContent", prompt |-> prompt, ms |-> 0]
Wait(ms) == [op |-> "setTimeout", prompt |-> "", ms |-> ms]

\* part_002:422, 636   1000 * Math.pow(2, attempts)
retryDelay(attempts) == 1000 * 2 ^ attempts

\* part_002:420, 635   if (attempts < maxAttempts): a wait follows the
\* failure
waitsAfterEveryFailure(attempts) == TRUE
waitsBeforeRetry(attempts) == attempts < maxAttempts

\* part_002:416-424, 631-638   the catch of an attempt: attempts is the
\* count after attempts++
afterFailure(trace, attempts) ==
    IF waitsBeforeRetry(attempts) THEN Append(trace, Wait(retryDelay(attempts))) ELSE trace

\* part_002:395-426   the loop of the style analysis.  An answer is JSON, text
\* without JSON, or an error raised by the call.
RECURSIVE analysisLoop(_, _, _)
analysisLoop(answers, attempts, trace) ==
    IF attempts >= maxAttempts THEN [trace |-> trace, outcome |-> "fallback"]
    ELSE LET called == Append(trace, GatewayCall("analysis"))
         IN CASE answers[attempts + 1] = "json" ->
                    [trace |-> called, outcome |-> "returned"]
              [] answers[attempts + 1] = "text" ->
                    analysisLoop(answers, attempts + 1, called)
              [] OTHER ->
                    analysisLoop(answers, attempts + 1, afterFailure(called, attempts + 1))

\* part_002:602-641   the loop of the draft.  An answer is text that starts
\* with "Subject:", text that does not - generateNaturalSubject then asks
\* the gateway for one and catches its own errors - or an error raised.
RECURSIVE draftLoop(_, _, _)
draftLoop(answers, attempts, trace) ==
    IF attempts >= maxAttempts THEN [trace |-> trace, outcome |-> "raised"]
    ELSE LET called == Append(trace, GatewayCall("draft"))
         IN CASE answers[attempts + 1] = "subject and body" ->
                    [trace |-> called, outcome |-> "returned"]
              [] answers[attempts + 1] = "body" ->
                    [trace |-> Append(called, GatewayCall("subject")),
                     outcome |-> "returned"]
              [] OTHER ->
                    draftLoop(answers, attempts + 1, afterFailure(called, attempts + 1))

AnalysisAnswers == {"json", "text", "error"}
DraftAnswers == {"subject and body", "body", "error"}

RetryInit ==
    /\ CacheLoaded
    /\ callArgs \in [step : {"analysis"}, answers : [1..maxAttempts -> AnalysisAnswers]]
                    \cup [step : {"draft"}, answers : [1..maxAttempts -> DraftAnswers]]
    /\ callResult = NoResult

\* The loop of analyzeEmailContext run to its end.
AnalyzeWithRetries ==
    /\ ~callResult.done /\ callArgs.step = "analysis"
    /\ callResult' = ResultOf(analysisLoop(callArgs.answers, 0, <<>>))
    /\ UNCHANGED <<callArgs, cacheVars, mailVars, scheduleVars, chatVars, requestVars, optionVars>>

\* The loop of generateHumanizedEmail run to its end.
DraftWithRetries ==
    /\ ~callResult.done /\ callArgs.step = "draft"
    /\ callResult' = ResultOf(draftLoop(callArgs.answers, 0, <<>>))
    /\ UNCHANGED <<callArgs, cacheVars, mailVars, scheduleVars, chatVars, requestVars, optionVars>>

RetryNext == AnalyzeWithRetries \/ DraftWithRetries

SpecRetry == RetryInit /\ [][RetryNext]_vars

\* The calls of the gateway in a trace, and those with the prompt of the
\* step itself.
IsGatewayCall(x) == x.op = "generateContent"
IsAttempt(x) == x.op = "generateContent" /\ x.prompt = callArgs.step
IsWait(x) == x.op = "setTimeout"

\* Every wait stands between an attempt that raised and the next attempt,
\* and the waits grow.
WaitsBetweenFailures(trace) ==
    /\ \A i \in 1..Len(trace) :
          IsWait(trace[i]) =>
              /\ i > 1 /\ i < Len(trace)
              /\ IsAttempt(trace[i - 1]) /\ IsAttempt(trace[i + 1])
              /\ callArgs.answers[Len(SelectSeq(SubSeq(trace, 1, i), IsAttempt))] = "error"
    /\ \A i, j \in 1..Len(trace) :
          (IsWait(trace[i]) /\ IsWait(trace[j]) /\ i < j) => trace[i].ms < trace[j].ms

\* C35 (bounded retries): a run of either loop calls the gateway at most 3
\* times, waits only between failed attempts, with growing delay and never
\* after the last attempt, and ends by returning or by signalling failure.
C35_BoundedRetries ==
    callResult.done =>
        /\ Len(SelectSeq(callResult.value.trace, IsGatewayCall)) <= 3
        /\ WaitsBetweenFailures(callResult.value.trace)
        /\ callResult.value.outcome \in {"returned", "fallback", "raised"}

\* C35 as the code has it: at most 3 attempts are made; an attempt of the
\* draft whose text has no subject line is followed by one call for the
\* subject, which is never repeated.
C35_BoundedAttempts ==
    callResult.done =>
        /\ Len(SelectSeq(callResult.value.trace, IsAttempt)) <= 3
        /\ Len(SelectSeq(callResult.value.trace, IsGatewayCall))
              <= Len(SelectSeq(callResult.value.trace, IsAttempt)) + 1
        /\ WaitsBetweenFailures(callResult.value.trace)
        /\ callResult.value.outcome \in {"returned", "fallback", "raised"}

\* Two attempts of the draft raised, with waits of 2 and 4 seconds, and the
\* third gave a body without a subject line.
C35_Witness ==
    /\ callResult.done /\ callArgs.step = "draft"
    /\ callResult.value.trace =
          <<GatewayCall("draft"), Wait(2000), GatewayCall("draft"), Wait(4000),
            GatewayCall("draft"), GatewayCall("subject")>>
    /\ callResult.value.outcome = "returned"

(***************************************************************************)
(* part_000:23-36: initialize(customOptions) replaces the options and      *)
(* leaves the Map as it is.  The cache's operations run between calls of   *)
(* it.                                                                     *)
(***************************************************************************)
MaxSizes == 1..MaxSize      \* the maxSize given to initialize()

Initialize ==
    \E maxSize \in MaxSizes :
        /\ options' = [options EXCEPT !.maxSize = maxSize]
        /\ last' = Call("initialize", "", "none", TRUE, {})
        /\ UNCHANGED <<cache, now, stored, lazy, lazyLast, mailVars, scheduleVars,
                       chatVars, requestVars, callVars>>

ResizeNext ==
    \/ Initialize
    \/ Set \/ Get \/ Has \/ Remove \/ Clear \/ Cleanup
    \/ SetMultiple \/ Tick

SpecResize == CacheInit /\ [][ResizeNext]_vars

\* C36 (cache size bound): a call that leaves maxSize as it is, on a cache
\* holding no more than maxSize entries, leaves no more than maxSize entries;
\* the cache starts empty, so size() <= maxSize for as long as initialize()
\* does not lower maxSize below the size.
C36_SizeBound ==
    [][(options' = options /\ size(cache) <= options.maxSize)
          => size(cache') <= options.maxSize]_vars

\* After initialize() lowered maxSize below the size, a set() that evicted the
\* oldest entry for a new key has left more than maxSize entries.
C36_Witness ==
    /\ last.op = "set" /\ last.result = TRUE /\ last.evicted # {}
    /\ size(cache) > options.maxSize

(***************************************************************************)
(* The mail flow's state between turns.                                    *)
(***************************************************************************)
\* The stages a flow waits in for the user's next message.
WaitingStages ==
    {"collecting_recipient", "collecting_purpose", "collecting_context",
     "confirming", "editing"}

\* C37 (mail stage invariant): between turns an active flow is at one of the
\* five stages that wait for the user, never at checking_context or
\* generating; a flow that is not active is at init with empty recipient,
\* subject, body and purpose; at confirming the recipient is not empty and
\* the subject and the body are those generated for the recipient and the
\* purpose the flow holds.
C37_StageInvariant ==
    /\ emailState.active => emailState.stage \in WaitingStages
    /\ ~emailState.active =>
            /\ emailState.stage = "init"
            /\ emailState.data.to = Str(<<>>)
            /\ emailState.data.subject = "" /\ emailState.data.body = ""
            /\ emailState.data.purpose = <<>>
    /\ emailState.stage = "confirming" =>
            /\ Truthy(emailState.data.to)
            /\ emailState.data.subject \in Subjects
            /\ emailState.data.body = "body:generated"
            /\ turn.draftCurrent

\* A draft stands at confirming, generated in the turn that stated the
\* purpose the flow holds.
C37_Witness ==
    /\ emailState.active /\ emailState.stage = "confirming"
    /\ turn.op = "handleEmailIntent" /\ turn.stageBefore = "collecting_purpose"
    /\ turn.generation = "succeeded" /\ turn.sendsInFlow = 0
    /\ emailState.data.purpose # <<>>
    /\ turn.draftCurrent

(***************************************************************************)
(* part_004:157-168 with part_003:8-86: the turns of the scheduling flow   *)
(* with the createCalendarEvent call of the confirmation answering as the  *)
(* calendar backend lets it.  callResult holds what the call of the turn   *)
(* returned, and nothing after a turn without one.                         *)
(***************************************************************************)
\* Only the turn that reaches confirming may call createCalendarEvent.
CreateOutcomesAt(st, userInput, t) ==
    IF ScheduleHandlerOf(st, userInput, t) = "confirming"
    THEN CalendarClients \X BOOLEAN
    ELSE {<<"client", TRUE>>}

ConfirmAndCreate ==
    /\ \E userInput \in ScheduleInputs :
        \E o \in ScheduleOutcomesAt(scheduleState, userInput, clock) :
        \E c \in CreateOutcomesAt(scheduleState, userInput, clock) :
            /\ ScheduleTurn(userInput, o)
            /\ callResult' =
                    IF schedTurn'.created = <<>> THEN NoResult
                    ELSE ResultOf(createCalendarEventResult(schedTurn'.created[1], c[1], c[2]))
    /\ UNCHANGED <<callArgs, cacheVars, mailVars, chatVars, requestVars, optionVars>>

OutcomeNext == ConfirmAndCreate \/ MailTick

SpecOutcome == ScheduleInit /\ [][OutcomeNext]_vars

\* C38 (truthful scheduling outcome): a turn answers that the event has been
\* scheduled successfully only if its createCalendarEvent call returned
\* success; a turn whose call failed says so and does not say the event was
\* scheduled.
C38_TruthfulOutcome ==
    /\ schedTurn.response = SCHED_DONE => (callResult.done /\ callResult.value.success)
    /\ (callResult.done /\ ~callResult.value.success) =>
            /\ schedTurn.response # SCHED_DONE
            /\ schedTurn.response = SCHED_ERROR

\* "yes" at confirming with the calendar not authenticated: the call
\* returned success false, the flow is over and the answer is that the event
\* has been scheduled successfully.
C38_Witness ==
    /\ schedTurn.stageBefore = "confirming" /\ schedTurn.created # <<>>
    /\ callResult.done /\ ~callResult.value.success
    /\ callResult.value.error = CREATE_NOT_AUTHENTICATED
    /\ ~scheduleState.active
    /\ schedTurn.response = SCHED_DONE

(***************************************************************************)
(* part_004:66-183: what the user's inputs can do to an active flow before *)
(* its ten minutes are over.                                               *)
(***************************************************************************)
MaxFinishTurns == 3     \* the turns the search for an end of the flow goes deep

\* The inputs tried: those of the turns, a bare "1" and "yes".
FinishInputs == ScheduleInputs \cup {Str(ONE), Str(YES)}

\* Some sequence of at most `turns` inputs, each handled at the instant the
\* flow started so that none is timed out, leaves the flow inactive.
RECURSIVE CanFinish(_, _)
CanFinish(st, turns) ==
    \/ ~st.active
    \/ /\ turns > 0
       /\ \E userInput \in FinishInputs :
            \E o \in ScheduleOutcomesAt(st, userInput, st.data.startTimestamp) :
            \E next \in {handleScheduleIntent(st, userInput, st.data.startTimestamp, o).state} :
                next # st /\ CanFinish(next, turns - 1)

\* No input changes the state of the flow in any way.
Trapped(st) ==
    /\ st.active
    /\ \A userInput \in FinishInputs :
         \A o \in ScheduleOutcomesAt(st, userInput, st.data.startTimestamp) :
            handleScheduleIntent(st, userInput, st.data.startTimestamp, o).state = st

\* C39 (the flow can always be finished): from every state with the flow
\* active, some sequence of inputs handled before the timeout leaves it
\* inactive.
C39_CanBeFinished ==
    scheduleState.active => CanFinish(scheduleState, MaxFinishTurns)

\* The flow is at suggesting_time with no slot found: whatever the input,
\* the state stays as it is.
C39_Witness ==
    /\ scheduleState.active /\ scheduleState.stage = "suggesting_time"
    /\ scheduleState.data.suggestedTimes = <<>>
    /\ schedTurn.response = SCHED_NO_SLOTS
    /\ Trapped(scheduleState)

(***************************************************************************)
(* Requests that arrive once a draft has been presented.  The state they   *)
(* find is the one two requests under sessionId "A" leave: the first names *)
(* the recipient, the second the purpose, and the gateway's calls succeed. *)
(***************************************************************************)
MaxConfirmArrivals == 5     \* the two requests before the draft, and three after

\* part_002:801-1006   emailState after those two turns
DraftPresented ==
    LET started == handleEmailIntent(ResetState, Str(MAIL_REQUEST), EmailData(Str(Address)),
                                     0, NoOutcome).state
        o == [NoOutcome EXCEPT !.context = "json:complete", !.style = "profile:analysed",
                               !.failures = 0, !.subject = "subject:generated"]
    IN handleEmailIntent(started, Str(<<"s", "a", "y", " ", "h", "i">>), EmptyEntities, 0, o).state

ConfirmInit ==
    /\ cache = <<>>
    /\ now = 0
    /\ last = Call("init", "", "none", TRUE, {})
    /\ stored = NoEntry("")
    /\ lazy = <<>>
    /\ lazyLast = [on |-> FALSE, result |-> TRUE, evicted |-> FALSE, deleted |-> FALSE]
    /\ emailState = DraftPresented
    /\ clock = 0
    /\ turn = NoTurn
    /\ ScheduleIdle
    /\ conversationHistory = <<UserEntry, AssistantEntry, UserEntry, AssistantEntry>>
    /\ chatTurn = NoChatTurn
    /\ requests = <<[NoRequest EXCEPT !.session = "A", !.input = Str(<<"s", "a", "y", " ", "h", "i">>),
                                      !.route = "mail"],
                    [NoRequest EXCEPT !.session = "A", !.input = Str(MAIL_REQUEST),
                                      !.route = "intent"]>>
    /\ binding = 0
    /\ flowSession = "A"
    /\ arrivals = 2
    /\ lastStep = [request |-> 1, session |-> "A", step |-> "drafted", touched |-> TRUE,
                   response |-> MSG_DRAFT]
    /\ NoCall
    /\ options = ConfiguredOptions

ConfirmNext ==
    \E p \in Requests :
        \/ ArriveAmong(p, MaxConfirmArrivals)
        \/ Stored(p)
        \/ Classified(p)
        \/ Analyzed(p)
        \/ Styled(p)
        \/ Drafted(p)
        \/ Sent(p)
        \/ Answered(p)

SpecConfirm == ConfirmInit /\ [][ConfirmNext]_vars

\* The requests suspended in sendEmail (part_002:894).
Sending == {p \in Requests : requests[p].pc = "sending"}

\* C40 (atomic confirmation, the mail flow): a request calls sendEmail only
\* while no other request is suspended in the send call, so that two
\* overlapping "yes" turns send the draft at most once.
C40_SendOnce ==
    [][\A p \in Requests :
          (p \notin Sending /\ p \in Sending')
              => Sending = {}]_vars

\* Both requests answered "yes" to the same draft and both are suspended in
\* sendEmail, the flow still at confirming.
C40_Witness ==
    /\ Sending = Requests
    /\ \A p \in Requests : includes(toLowerCase(requests[p].input.s), YES)
    /\ emailState.stage = "confirming" /\ emailState = DraftPresented
    /\ binding = 0

====
